---- MODULE Spec2Model ----
(***************************************************************************)
(* Cycle ledger of the money tracker: monthly cycles, their expenses       *)
(* (depenses), the user's fixed charges and the categories, as kept in     *)
(* the record store and mutated by the service functions of                *)
(* cycles.service, depenses.service, charges.service and                   *)
(* categories.service, as summarised by stats.service, and as shown by     *)
(* the dashboard (its data hook and its close-and-roll-over flow).         *)
(*                                                                         *)
(* Amounts are integers.  An optional field of a Partial<...> argument is  *)
(* a set with at most one element: {} when the field is undefined.         *)
(* Every store call of a handler may fail; the calls that fail in one      *)
(* invocation are the input set `fails`.                                   *)
(***************************************************************************)
EXTENDS Integers, FiniteSets, Sequences, TLC

\* ---- bounds ----
MaxCycles == 2
MaxDepenses == 2
MaxCharges == 1
MaxCategories == 3

\* ---- input domains ----
Users == {"u1", "u2"}
\* the users that open cycles; the other user only keeps fixed charges
CycleOwners == {"u1"}
Annees == {2025}
Moiss == {1, 2}
Salaires == {3000}
ChargeTotals == {500}
DepenseMontants == {200, 250}
ChargeMontants == {800}

\* the data of an expense form: montant and categorie_id (date, description
\* and tags enter no total and no grouping)
DepenseForms == [montant : DepenseMontants, categorie_id : {1}]

CycleIds == 1..MaxCycles
DepenseIds == 1..MaxDepenses
ChargeIds == 1..MaxCharges
CategorieIds == 1..MaxCategories
NoId == 0

Opt(S) == {{}} \cup {{v} : v \in S}
Has(o) == o # {}
Val(o) == CHOOSE v \in o : TRUE

\* Partial<CycleMensuel> as passed to updateCycle
NoUpdate ==
  [salaire_reel |-> {}, total_charges |-> {}, total_depenses |-> {},
   reste |-> {}, statut |-> {}]
CycleUpdates ==
  {[NoUpdate EXCEPT !.salaire_reel = {1000}],
   [NoUpdate EXCEPT !.reste = {7}],
   [NoUpdate EXCEPT !.salaire_reel = {1000}, !.reste = {7}],
   [NoUpdate EXCEPT !.statut = {"actif"}]}

\* Partial<DepenseFormData> as passed to updateDepense (montant, and the
\* fields that do not enter any total: categorie_id, date, description, tags)
DepenseUpdates == [montant : Opt(DepenseMontants)]

\* Partial<ChargeFormData> as passed to updateCharge
ChargeUpdates == {[montant |-> {m}, actif |-> {}] : m \in ChargeMontants}
                   \cup {[montant |-> {}, actif |-> {FALSE}]}

VARIABLES
  cycles,    \* table cycles_mensuels: id -> row
  depenses,  \* table depenses: id -> row
  charges,   \* table charges_fixes: id -> row
  result,    \* what the last service call returned: op, id, data, error
  pc,        \* concurrent callers: the store call each is about to issue
  loc,       \* concurrent callers: the locals of the call in progress
  categories, \* table categories: id -> row
  report,    \* the data the last call returned, when it was a statistics call
  dashboard  \* the state of the useDashboard hook

vars == <<cycles, depenses, charges, result, pc, loc, categories, report, dashboard>>

Procs == {"p1", "p2"}

\* ---- pure helpers ----

RECURSIVE SumMontant(_, _)
SumMontant(rows, ids) ==
  IF ids = {} THEN 0
  ELSE LET i == CHOOSE x \in ids : TRUE
       IN rows[i].montant + SumMontant(rows, ids \ {i})

\* rows of depenses selected by .eq('cycle_id', cycleId)
DepensesOfCycle(dep, cycleId) == {d \in DOMAIN dep : dep[d].cycle_id = cycleId}

\* a total over the expenses of every cycle
getTotalDepensesAll(dep, cycleId) == SumMontant(dep, DOMAIN dep)

getTotalDepenses(dep, cycleId) == SumMontant(dep, DepensesOfCycle(dep, cycleId))

\* rows of charges_fixes selected by .eq('user_id', u).eq('actif', true)
ActiveChargesOf(ch, u) == {c \in DOMAIN ch : ch[c].user_id = u /\ ch[c].actif}

ActiveChargesTotal(ch, u) == SumMontant(ch, ActiveChargesOf(ch, u))

FreeId(ids, used) == CHOOSE i \in ids \ used : \A j \in ids \ used : i <= j

Res(op, id, data, error) == [op |-> op, id |-> id, data |-> data, error |-> error]

EmptyTable == [i \in {} |-> 0]

Without(table, id) == [i \in DOMAIN table \ {id} |-> table[i]]

\* the categories every user sees: rows whose user_id is null
DefaultCategories == (1 :> [user_id |-> "null", budget_max |-> {}])

\* no statistics returned
NoReport == [kind |-> "none"]

\* useState's initial DashboardData: no cycle, loading, no error
NoDashboard == [cycle |-> {}, totalChargesActives |-> 0, loading |-> TRUE, error |-> FALSE]

NoLocals == [op |-> "none", id |-> NoId, cycle_id |-> NoId, total |-> 0, updates |-> NoUpdate]

Init ==
  /\ cycles = EmptyTable
  /\ depenses = EmptyTable
  /\ charges = EmptyTable
  /\ result = Res("init", NoId, FALSE, "none")
  /\ pc = [p \in Procs |-> "idle"]
  /\ loc = [p \in Procs |-> NoLocals]
  /\ categories = DefaultCategories
  /\ report = NoReport
  /\ dashboard = NoDashboard

\* ---- cycles.service ----

\* what the insert into cycles_mensuels answers: the table admits one row
\* per (user_id, annee, mois)
InsertCycleError(cyc, u, annee, mois, fails) ==
  IF "insert" \in fails THEN "store"
  ELSE IF \E c \in DOMAIN cyc :
            cyc[c].user_id = u /\ cyc[c].annee = annee /\ cyc[c].mois = mois
       THEN "duplicate"
       ELSE "none"

\* a createCycle that reports every failed insert as the same storage failure
CreateCycleErrorGeneric(insertError) == "store"

\* createCycle hands the store's error to its caller as it is
CreateCycleError(insertError) == insertError

\* a new cycle that starts without the charges total it was given
NewCycleNoCharges(u, salaire, annee, mois, totalCharges) ==
  [user_id |-> u, annee |-> annee, mois |-> mois, salaire_reel |-> salaire,
   total_charges |-> 0, total_depenses |-> 0,
   reste |-> salaire, statut |-> "actif"]

NewCycle(u, salaire, annee, mois, totalCharges) ==
  [user_id |-> u, annee |-> annee, mois |-> mois, salaire_reel |-> salaire,
   total_charges |-> totalCharges, total_depenses |-> 0,
   reste |-> salaire - totalCharges, statut |-> "actif"]

createCycle(u, salaire, annee, mois, totalCharges, fails) ==
  LET err == InsertCycleError(cycles, u, annee, mois, fails)
      id == FreeId(CycleIds, DOMAIN cycles)
  IN /\ err # "none" \/ DOMAIN cycles # CycleIds
     /\ IF err # "none"
        THEN /\ cycles' = cycles
             /\ result' = Res("createCycle", NoId, FALSE, CreateCycleError(err))
        ELSE /\ cycles' = (id :> NewCycle(u, salaire, annee, mois, totalCharges)) @@ cycles
             /\ result' = Res("createCycle", id, TRUE, "none")
     /\ UNCHANGED <<depenses, charges, pc, loc, dashboard, categories>>
     /\ report' = NoReport

\* .single() on a select/update/delete by id answers an error when no row matches
RowError(table, id, call, fails) ==
  IF call \in fails THEN "store"
  ELSE IF id \notin DOMAIN table THEN "notfound"
  ELSE "none"

\* a select by id that answers no row without an error (maybeSingle)
SingleMaybe(table, id, call, fails) ==
  [data |-> IF call \notin fails /\ id \in DOMAIN table THEN {table[id]} ELSE {},
   error |-> IF call \in fails THEN "store" ELSE "none"]

\* what .single() answers to a select by id: the row, or an error and no data
Single(table, id, call, fails) ==
  LET error == RowError(table, id, call, fails)
  IN [data |-> IF error = "none" THEN {table[id]} ELSE {}, error |-> error]

\* the fields of a row after update(updates): given fields replace stored ones
Merge(row, updates) ==
  [f \in DOMAIN row |->
     IF f \in DOMAIN updates /\ Has(updates[f]) THEN Val(updates[f]) ELSE row[f]]

\* a closure that keeps the charges total stored on the cycle
CloseUpdatesStoredCharges(currentCycle, ch) ==
  [NoUpdate EXCEPT
     !.statut = {"cloture"},
     !.reste = {currentCycle.salaire_reel - currentCycle.total_charges
                  - currentCycle.total_depenses}]

\* a closure that writes the status alone
CloseUpdatesStatutOnly(currentCycle, ch) == [NoUpdate EXCEPT !.statut = {"cloture"}]

\* the fields closeCycle writes, from the cycle it fetched and the charges
CloseUpdates(currentCycle, ch) ==
  LET totalCharges == ActiveChargesTotal(ch, currentCycle.user_id)
  IN [NoUpdate EXCEPT
        !.statut = {"cloture"},
        !.total_charges = {totalCharges},
        !.reste = {currentCycle.salaire_reel - totalCharges
                     - currentCycle.total_depenses}]

closeCycle(cycleId, fails) ==
  LET fetched == Single(cycles, cycleId, "select", fails)
      chargesError == IF "selectCharges" \in fails THEN "store" ELSE "none"
      updateError == RowError(cycles, cycleId, "update", fails)
  IN /\ IF fetched.error # "none" \/ ~Has(fetched.data)
        THEN /\ cycles' = cycles
             /\ result' = Res("closeCycle", cycleId, FALSE, fetched.error)
        ELSE IF chargesError # "none"
        THEN /\ cycles' = cycles
             /\ result' = Res("closeCycle", cycleId, FALSE, chargesError)
        ELSE IF updateError # "none"
        THEN /\ cycles' = cycles
             /\ result' = Res("closeCycle", cycleId, FALSE, updateError)
        ELSE /\ cycles' = [cycles EXCEPT
                             ![cycleId] = Merge(@, CloseUpdates(Val(fetched.data), charges))]
             /\ result' = Res("closeCycle", cycleId, TRUE, "none")
     /\ UNCHANGED <<depenses, charges, pc, loc, dashboard, categories>>
     /\ report' = NoReport

\* updateCycle's updates after its "recalculate reste" block; current is the
\* row its select returned ({} when the select returned no data)
WithReste(updates, current) ==
  IF (Has(updates.salaire_reel) \/ Has(updates.total_charges)
        \/ Has(updates.total_depenses)) /\ Has(current)
  THEN LET salaire == IF Has(updates.salaire_reel) THEN Val(updates.salaire_reel)
                      ELSE Val(current).salaire_reel
           chargesT == IF Has(updates.total_charges) THEN Val(updates.total_charges)
                       ELSE Val(current).total_charges
           depensesT == IF Has(updates.total_depenses) THEN Val(updates.total_depenses)
                        ELSE Val(current).total_depenses
       IN [updates EXCEPT !.reste = {salaire - chargesT - depensesT}]
  ELSE updates

updateCycle(cycleId, updates, fails) ==
  LET current == IF RowError(cycles, cycleId, "select", fails) = "none"
                 THEN {cycles[cycleId]} ELSE {}
      updateError == RowError(cycles, cycleId, "update", fails)
  IN /\ IF updateError # "none"
        THEN /\ cycles' = cycles
             /\ result' = Res("updateCycle", cycleId, FALSE, updateError)
        ELSE /\ cycles' = [cycles EXCEPT
                             ![cycleId] = Merge(@, WithReste(updates, current))]
             /\ result' = Res("updateCycle", cycleId, TRUE, "none")
     /\ UNCHANGED <<depenses, charges, pc, loc, dashboard, categories>>
     /\ report' = NoReport

\* deleting a cycle deletes the depenses that reference it
deleteCycle(cycleId, fails) ==
  LET error == RowError(cycles, cycleId, "delete", fails)
  IN /\ IF error # "none"
        THEN /\ cycles' = cycles
             /\ depenses' = depenses
             /\ result' = Res("deleteCycle", cycleId, FALSE, error)
        ELSE /\ cycles' = Without(cycles, cycleId)
             /\ depenses' = [d \in DOMAIN depenses \ DepensesOfCycle(depenses, cycleId)
                               |-> depenses[d]]
             /\ result' = Res("deleteCycle", cycleId, TRUE, "none")
     /\ UNCHANGED <<charges, pc, loc, dashboard, categories>>
     /\ report' = NoReport

\* ---- depenses.service ----

\* the fields the recompute writes, from the sum and the cycle it read
TotalsUpdates(total, cycle) ==
  [NoUpdate EXCEPT
     !.total_depenses = {total},
     !.reste = {cycle.salaire_reel - cycle.total_charges - total}]

\* a refresh that writes the new sum before it reads the cycle
updateCycleTotalDepensesEager(cyc, dep, cycleId, fails) ==
  IF "selectMontants" \in fails \/ cycleId \notin DOMAIN cyc THEN cyc
  ELSE LET total == getTotalDepenses(dep, cycleId)
       IN IF "selectCycle" \in fails \/ "updateCycle" \in fails
          THEN [cyc EXCEPT ![cycleId].total_depenses = total]
          ELSE [cyc EXCEPT ![cycleId] = Merge(@, TotalsUpdates(total, cyc[cycleId]))]

\* the cycles table after updateCycleTotalDepenses(cycleId): every failure
\* inside it is swallowed
updateCycleTotalDepenses(cyc, dep, cycleId, fails) ==
  IF "selectMontants" \in fails THEN cyc
  ELSE IF RowError(cyc, cycleId, "selectCycle", fails) # "none" THEN cyc
  ELSE IF "updateCycle" \in fails THEN cyc
  ELSE [cyc EXCEPT
          ![cycleId] = Merge(@, TotalsUpdates(getTotalDepenses(dep, cycleId), cyc[cycleId]))]

\* the insert into depenses: cycle_id references an existing cycle
InsertDepenseError(cyc, cycleId, fails) ==
  IF "insert" \in fails THEN "store"
  ELSE IF cycleId \notin DOMAIN cyc THEN "store"
  ELSE "none"

\* a createDepense that refreshes the totals also when its insert failed
createDepenseRefreshing(u, cycleId, data, fails) ==
  LET error == InsertDepenseError(cycles, cycleId, fails)
      id == FreeId(DepenseIds, DOMAIN depenses)
      inserted == (id :> [user_id |-> u, cycle_id |-> cycleId, montant |-> data.montant,
                          categorie_id |-> data.categorie_id])
                    @@ depenses
  IN /\ error # "none" \/ DepenseIds \ DOMAIN depenses # {}
     /\ IF error # "none"
        THEN /\ depenses' = depenses
             /\ cycles' = updateCycleTotalDepenses(cycles, depenses, cycleId, fails)
             /\ result' = Res("createDepense", NoId, FALSE, error)
        ELSE /\ depenses' = inserted
             /\ cycles' = updateCycleTotalDepenses(cycles, inserted, cycleId, fails)
             /\ result' = Res("createDepense", id, TRUE, "none")
     /\ UNCHANGED <<charges, pc, loc, dashboard, categories>>
     /\ report' = NoReport

createDepense(u, cycleId, data, fails) ==
  LET error == InsertDepenseError(cycles, cycleId, fails)
      id == FreeId(DepenseIds, DOMAIN depenses)
      inserted == (id :> [user_id |-> u, cycle_id |-> cycleId, montant |-> data.montant,
                          categorie_id |-> data.categorie_id])
                    @@ depenses
  IN /\ error # "none" \/ DepenseIds \ DOMAIN depenses # {}
     /\ IF error # "none"
        THEN /\ depenses' = depenses
             /\ cycles' = cycles
             /\ result' = Res("createDepense", NoId, FALSE, error)
        ELSE /\ depenses' = inserted
             /\ cycles' = updateCycleTotalDepenses(cycles, inserted, cycleId, fails)
             /\ result' = Res("createDepense", id, TRUE, "none")
     /\ UNCHANGED <<charges, pc, loc, dashboard, categories>>
     /\ report' = NoReport

updateDepense(depenseId, updates, fails) ==
  LET error == RowError(depenses, depenseId, "update", fails)
      updated == [depenses EXCEPT ![depenseId] = Merge(@, updates)]
  IN /\ IF error # "none"
        THEN /\ depenses' = depenses
             /\ cycles' = cycles
             /\ result' = Res("updateDepense", depenseId, FALSE, error)
        ELSE /\ depenses' = updated
             /\ cycles' = IF Has(updates.montant)
                          THEN updateCycleTotalDepenses(cycles, updated,
                                 updated[depenseId].cycle_id, fails)
                          ELSE cycles
             /\ result' = Res("updateDepense", depenseId, TRUE, "none")
     /\ UNCHANGED <<charges, pc, loc, dashboard, categories>>
     /\ report' = NoReport

deleteDepense(depenseId, fails) ==
  LET depenseToDelete == IF RowError(depenses, depenseId, "select", fails) = "none"
                         THEN {depenses[depenseId]} ELSE {}
      error == RowError(depenses, depenseId, "delete", fails)
      remaining == Without(depenses, depenseId)
  IN /\ IF error # "none"
        THEN /\ depenses' = depenses
             /\ cycles' = cycles
             /\ result' = Res("deleteDepense", depenseId, FALSE, error)
        ELSE /\ depenses' = remaining
             /\ cycles' = IF Has(depenseToDelete)
                          THEN updateCycleTotalDepenses(cycles, remaining,
                                 Val(depenseToDelete).cycle_id, fails)
                          ELSE cycles
             /\ result' = Res("deleteDepense", depenseId, TRUE, "none")
     /\ UNCHANGED <<charges, pc, loc, dashboard, categories>>
     /\ report' = NoReport

\* ---- categories.service ----

\* budgets a category form carries: none, zero, a positive amount
Budgets == {0, 200}

\* CategorieFormData as passed to createCategorie and, in part, to
\* updateCategorie (nom, icon, couleur and type enter no check and no total)
CategorieForms == [budget_max : Opt(Budgets)]

\* data.budget_max || null
OrNull(o) == IF Has(o) /\ Val(o) # 0 THEN o ELSE {}

createCategorie(u, data, fails) ==
  LET id == FreeId(CategorieIds, DOMAIN categories)
  IN /\ "insert" \in fails \/ DOMAIN categories # CategorieIds
     /\ IF "insert" \in fails
        THEN /\ categories' = categories
             /\ result' = Res("createCategorie", NoId, FALSE, "store")
        ELSE /\ categories' = (id :> [user_id |-> u, budget_max |-> OrNull(data.budget_max)])
                                 @@ categories
             /\ result' = Res("createCategorie", id, TRUE, "none")
     /\ UNCHANGED <<cycles, depenses, charges, pc, loc, dashboard>>
     /\ report' = NoReport

\* what a write filtered by .eq('id', id).eq('user_id', userId).single() answers
OwnedRowError(table, id, userId, call, fails) ==
  IF call \in fails THEN "store"
  ELSE IF id \notin DOMAIN table \/ table[id].user_id # userId THEN "notfound"
  ELSE "none"

\* the budget_max a category row holds after update(updateData)
UpdatedCategorie(row, updates) ==
  IF Has(updates.budget_max) THEN [row EXCEPT !.budget_max = updates.budget_max]
  ELSE row

\* an update that trusts the caller: no ownership check, the row found by id
updateCategorieUnchecked(categorieId, userId, updates, fails) ==
  LET error == RowError(categories, categorieId, "update", fails)
  IN /\ IF error # "none"
        THEN /\ categories' = categories
             /\ result' = Res("updateCategorie", categorieId, FALSE, error)
        ELSE /\ categories' = [categories EXCEPT
                                 ![categorieId] = UpdatedCategorie(@, updates)]
             /\ result' = Res("updateCategorie", categorieId, TRUE, "none")
     /\ UNCHANGED <<cycles, depenses, charges, pc, loc, dashboard>>
     /\ report' = NoReport

updateCategorie(categorieId, userId, updates, fails) ==
  LET existing == Single(categories, categorieId, "select", fails).data
      error == OwnedRowError(categories, categorieId, userId, "update", fails)
  IN /\ IF ~Has(existing) \/ Val(existing).user_id # userId
        THEN /\ categories' = categories
             /\ result' = Res("updateCategorie", categorieId, FALSE, "forbidden")
        ELSE IF error # "none"
        THEN /\ categories' = categories
             /\ result' = Res("updateCategorie", categorieId, FALSE, error)
        ELSE /\ categories' = [categories EXCEPT
                                 ![categorieId] = UpdatedCategorie(@, updates)]
             /\ result' = Res("updateCategorie", categorieId, TRUE, "none")
     /\ UNCHANGED <<cycles, depenses, charges, pc, loc, dashboard>>
     /\ report' = NoReport

deleteCategorie(categorieId, userId, fails) ==
  LET existing == Single(categories, categorieId, "select", fails).data
      error == OwnedRowError(categories, categorieId, userId, "delete", fails)
  IN /\ IF ~Has(existing) \/ Val(existing).user_id # userId
        THEN /\ categories' = categories
             /\ result' = Res("deleteCategorie", categorieId, FALSE, "forbidden")
        ELSE IF error # "none"
        THEN /\ categories' = categories
             /\ result' = Res("deleteCategorie", categorieId, FALSE, error)
        ELSE /\ categories' = Without(categories, categorieId)
             /\ result' = Res("deleteCategorie", categorieId, TRUE, "none")
     /\ UNCHANGED <<cycles, depenses, charges, pc, loc, dashboard>>
     /\ report' = NoReport

\* ---- stats.service ----

\* the clock readings of a statistics call, in hours since 2025-01-01 00:00:
\* before the first period, at its very start, inside it (on and off a day
\* boundary), at the start of the second period and after both
Todays == {-30, 0, 12, 336, 744, 2000}

IsLeap(annee) == (annee % 4 = 0 /\ annee % 100 # 0) \/ annee % 400 = 0

DaysInMonth(annee, mois) ==
  IF mois = 2 THEN (IF IsLeap(annee) THEN 29 ELSE 28)
  ELSE IF mois \in {4, 6, 9, 11} THEN 30 ELSE 31

RECURSIVE DaysBefore(_, _)
\* days from 2025-01-01 to the first day of (annee, mois), annee >= 2025
DaysBefore(annee, mois) ==
  IF mois > 1 THEN DaysInMonth(annee, mois - 1) + DaysBefore(annee, mois - 1)
  ELSE IF annee > 2025 THEN DaysInMonth(annee - 1, 12) + DaysBefore(annee - 1, 12)
  ELSE 0

\* date_debut of a cycle: startOfMonth, in hours
DateDebut(cycle) == 24 * DaysBefore(cycle.annee, cycle.mois)

\* date_fin of a cycle: endOfMonth, the last instant of the month, taken as
\* its last hour
DateFin(cycle) == DateDebut(cycle) + 24 * DaysInMonth(cycle.annee, cycle.mois) - 1

\* Math.ceil(a / b) for b > 0
CeilDiv(a, b) == -((-a) \div b)

Max(a, b) == IF a >= b THEN a ELSE b

Abs(a) == IF a < 0 THEN -a ELSE a

RECURSIVE Gcd(_, _)
Gcd(a, b) == IF b = 0 THEN a ELSE Gcd(b, a % b)

\* the number n / d (d # 0), in lowest terms with a positive denominator
Ratio(n, d) ==
  LET g == Gcd(Abs(n), Abs(d))
      s == IF d < 0 THEN -1 ELSE 1
  IN [num |-> s * (n \div g), den |-> s * (d \div g)]

TotalJours(cycle) == CeilDiv(DateFin(cycle) - DateDebut(cycle), 24)

JoursEcoules(cycle, today) == Max(0, CeilDiv(today - DateDebut(cycle), 24))

JoursRestants(cycle, today) == Max(0, TotalJours(cycle) - JoursEcoules(cycle, today))

\* a summary that divides by the income whenever it is not zero
StatsOfNonZero(cycle, today) ==
  LET joursEcoules == JoursEcoules(cycle, today)
      joursRestants == JoursRestants(cycle, today)
  IN [kind |-> "stats",
      salaire |-> cycle.salaire_reel,
      total_charges |-> cycle.total_charges,
      total_depenses |-> cycle.total_depenses,
      reste |-> cycle.reste,
      pourcentage_utilise |->
        IF cycle.salaire_reel # 0
        THEN Ratio((cycle.total_charges + cycle.total_depenses) * 100, cycle.salaire_reel)
        ELSE Ratio(0, 1),
      taux_epargne |->
        IF cycle.salaire_reel # 0 THEN Ratio(cycle.reste * 100, cycle.salaire_reel)
        ELSE Ratio(0, 1),
      depenses_par_jour |->
        IF joursEcoules > 0 THEN Ratio(cycle.total_depenses, joursEcoules)
        ELSE Ratio(0, 1),
      jours_restants |-> joursRestants,
      budget_journalier_restant |->
        IF joursRestants > 0 THEN Ratio(cycle.reste, joursRestants)
        ELSE Ratio(cycle.reste, 1)]

\* a summary whose day counts are not clamped at 0
StatsOfUnclamped(cycle, today) ==
  LET joursEcoules == CeilDiv(today - DateDebut(cycle), 24)
      joursRestants == TotalJours(cycle) - joursEcoules
  IN [kind |-> "stats",
      salaire |-> cycle.salaire_reel,
      total_charges |-> cycle.total_charges,
      total_depenses |-> cycle.total_depenses,
      reste |-> cycle.reste,
      pourcentage_utilise |->
        IF cycle.salaire_reel > 0
        THEN Ratio((cycle.total_charges + cycle.total_depenses) * 100, cycle.salaire_reel)
        ELSE Ratio(0, 1),
      taux_epargne |->
        IF cycle.salaire_reel > 0 THEN Ratio(cycle.reste * 100, cycle.salaire_reel)
        ELSE Ratio(0, 1),
      depenses_par_jour |->
        IF joursEcoules > 0 THEN Ratio(cycle.total_depenses, joursEcoules)
        ELSE Ratio(0, 1),
      jours_restants |-> joursRestants,
      budget_journalier_restant |->
        IF joursRestants > 0 THEN Ratio(cycle.reste, joursRestants)
        ELSE Ratio(cycle.reste, 1)]

\* the StatsMensuel that getStatsMensuel computes from the cycle and the clock
StatsOf(cycle, today) ==
  LET joursEcoules == JoursEcoules(cycle, today)
      joursRestants == JoursRestants(cycle, today)
  IN [kind |-> "stats",
      salaire |-> cycle.salaire_reel,
      total_charges |-> cycle.total_charges,
      total_depenses |-> cycle.total_depenses,
      reste |-> cycle.reste,
      pourcentage_utilise |->
        IF cycle.salaire_reel > 0
        THEN Ratio((cycle.total_charges + cycle.total_depenses) * 100, cycle.salaire_reel)
        ELSE Ratio(0, 1),
      taux_epargne |->
        IF cycle.salaire_reel > 0 THEN Ratio(cycle.reste * 100, cycle.salaire_reel)
        ELSE Ratio(0, 1),
      depenses_par_jour |->
        IF joursEcoules > 0 THEN Ratio(cycle.total_depenses, joursEcoules)
        ELSE Ratio(0, 1),
      jours_restants |-> joursRestants,
      budget_journalier_restant |->
        IF joursRestants > 0 THEN Ratio(cycle.reste, joursRestants)
        ELSE Ratio(cycle.reste, 1)]

getStatsMensuel(cycleId, today, fails) ==
  LET fetched == Single(cycles, cycleId, "select", fails)
  IN /\ IF fetched.error # "none" \/ ~Has(fetched.data)
        THEN /\ result' = Res("getStatsMensuel", cycleId, FALSE, fetched.error)
             /\ report' = NoReport
        ELSE /\ result' = Res("getStatsMensuel", cycleId, TRUE, "none")
             /\ report' = StatsOf(Val(fetched.data), today)
     /\ UNCHANGED <<cycles, depenses, charges, pc, loc, dashboard, categories>>

\* `cat.budget_max ? cat.total > cat.budget_max : false`: a budget that is
\* undefined, null or 0 is falsy
IsExceeded(budget_max, total) ==
  IF Has(budget_max) /\ Val(budget_max) # 0 THEN total > Val(budget_max) ELSE FALSE

Pourcentage(total, totalDepenses) ==
  IF totalDepenses > 0 THEN Ratio(total * 100, totalDepenses) ELSE Ratio(0, 1)

\* a group that counts its category's expenses in every cycle
GroupOfAnyCycle(dep, cat, rows, catId) ==
  LET mine == {d \in DOMAIN dep : dep[d].categorie_id = catId}
      total == SumMontant(dep, mine)
      budget_max == IF catId \in DOMAIN cat THEN cat[catId].budget_max ELSE {}
  IN [categorie_id |-> catId,
      total |-> total,
      nombre_depenses |-> Cardinality(mine),
      budget_max |-> budget_max,
      pourcentage |-> Pourcentage(total, SumMontant(dep, rows)),
      is_exceeded |-> IsExceeded(budget_max, total)]

\* the group of category catId among the selected rows, with the budget of
\* the joined category (none when the join found no category)
GroupOf(dep, cat, rows, catId) ==
  LET mine == {d \in rows : dep[d].categorie_id = catId}
      total == SumMontant(dep, mine)
      budget_max == IF catId \in DOMAIN cat THEN cat[catId].budget_max ELSE {}
  IN [categorie_id |-> catId,
      total |-> total,
      nombre_depenses |-> Cardinality(mine),
      budget_max |-> budget_max,
      pourcentage |-> Pourcentage(total, SumMontant(dep, rows)),
      is_exceeded |-> IsExceeded(budget_max, total)]

Groups(dep, cat, cycleId) ==
  LET rows == DepensesOfCycle(dep, cycleId)
  IN {GroupOf(dep, cat, rows, catId) : catId \in {dep[d].categorie_id : d \in rows}}

\* the orders sort((a, b) => b.total - a.total) can leave the groups in: the
\* select has no order, so groups of equal total come in any order
SortedDesc(groups) ==
  {s \in [1..Cardinality(groups) -> groups] :
     /\ \A i, j \in DOMAIN s : i # j => s[i] # s[j]
     /\ \A i, j \in DOMAIN s : i < j => s[i].total >= s[j].total}

getDepensesParCategorie(cycleId, fails) ==
  /\ IF "select" \in fails
     THEN /\ result' = Res("getDepensesParCategorie", cycleId, FALSE, "store")
          /\ report' = NoReport
     ELSE \E sorted \in SortedDesc(Groups(depenses, categories, cycleId)) :
            /\ result' = Res("getDepensesParCategorie", cycleId, TRUE, "none")
            /\ report' = [kind |-> "categories", groups |-> sorted]
  /\ UNCHANGED <<cycles, depenses, charges, pc, loc, dashboard, categories>>

\* ---- stats.service: the comparison of two cycles ----

\* the percentage by which current differs from prior, 0 unless prior > 0
Variation(current, prior) ==
  IF prior > 0 THEN Ratio((current - prior) * 100, prior) ELSE Ratio(0, 1)

RatioGreater(a, b) == a.num * b.den > b.num * a.den

\* a falling category reported with its negative variation
SignedRatio(r) == r

\* Math.abs of a ratio
AbsRatio(r) == [num |-> Abs(r.num), den |-> r.den]

\* what getDepensesParCategorie(cycleId) can hand to a caller: no data when
\* its select failed, otherwise the groups in one of their sorted orders
DepensesParCategorie(cycleId, failed) ==
  IF failed THEN {{}}
  ELSE {{sorted} : sorted \in SortedDesc(Groups(depenses, categories, cycleId))}

\* statsPrecedent.find((c) => c.categorie_id === catActuel.categorie_id)
FindCategorie(stats, categorieId) ==
  LET found == {i \in DOMAIN stats : stats[i].categorie_id = categorieId}
  IN IF found = {} THEN {}
     ELSE {stats[CHOOSE i \in found : \A j \in found : i <= j]}

RECURSIVE Pushed(_, _, _)
\* the entries the forEach over statsActuel pushes on one of the two lists,
\* in the order it pushes them; a category is named by its categorie_id
Pushed(statsActuel, statsPrecedent, list) ==
  IF statsActuel = <<>> THEN <<>>
  ELSE LET catActuel == Head(statsActuel)
           catPrecedent == FindCategorie(statsPrecedent, catActuel.categorie_id)
           rest == Pushed(Tail(statsActuel), statsPrecedent, list)
       IN IF ~Has(catPrecedent) THEN rest
          ELSE LET variation == Variation(catActuel.total, Val(catPrecedent).total)
               IN IF RatioGreater(variation, Ratio(5, 1))
                  THEN IF list = "hausse"
                       THEN <<[categorie_id |-> catActuel.categorie_id,
                               variation |-> variation]>> \o rest
                       ELSE rest
                  ELSE IF RatioGreater(Ratio(-5, 1), variation)
                  THEN IF list = "baisse"
                       THEN <<[categorie_id |-> catActuel.categorie_id,
                               variation |-> AbsRatio(variation)]>> \o rest
                       ELSE rest
                  ELSE rest

RECURSIVE InsertByVariation(_, _)
\* entry x placed behind the entries whose variation is not smaller
InsertByVariation(x, sorted) ==
  IF sorted = <<>> THEN <<x>>
  ELSE IF RatioGreater(x.variation, Head(sorted).variation) THEN <<x>> \o sorted
  ELSE <<Head(sorted)>> \o InsertByVariation(x, Tail(sorted))

RECURSIVE SortByVariation(_)
\* sort((a, b) => b.variation - a.variation): descending, equal entries in
\* the order they were pushed
SortByVariation(entries) ==
  IF entries = <<>> THEN <<>>
  ELSE InsertByVariation(entries[Len(entries)],
                         SortByVariation(SubSeq(entries, 1, Len(entries) - 1)))

\* the ComparaisonMois built from the two cycles and the two breakdowns
ComparaisonOf(cycleActuel, cyclePrecedent, statsActuel, statsPrecedent) ==
  LET both == Has(statsActuel) /\ Has(statsPrecedent)
  IN [kind |-> "comparaison",
      cycle_actuel |-> cycleActuel,
      cycle_precedent |-> cyclePrecedent,
      variation_depenses |->
        Variation(cycleActuel.total_depenses, cyclePrecedent.total_depenses),
      variation_reste |-> Variation(cycleActuel.reste, cyclePrecedent.reste),
      categories_en_hausse |->
        IF both THEN SortByVariation(Pushed(Val(statsActuel), Val(statsPrecedent), "hausse"))
        ELSE <<>>,
      categories_en_baisse |->
        IF both THEN SortByVariation(Pushed(Val(statsActuel), Val(statsPrecedent), "baisse"))
        ELSE <<>>]

ComparaisonCalls == {"selectActuel", "selectPrecedent", "statsActuel", "statsPrecedent"}

getComparaisonMois(cycleId, cycleIdPrecedent, fails) ==
  LET actuel == Single(cycles, cycleId, "selectActuel", fails)
      precedent == Single(cycles, cycleIdPrecedent, "selectPrecedent", fails)
  IN /\ IF actuel.error # "none" \/ precedent.error # "none"
           \/ ~Has(actuel.data) \/ ~Has(precedent.data)
        THEN /\ result' = Res("getComparaisonMois", cycleId, FALSE,
                              IF actuel.error # "none" THEN actuel.error
                              ELSE precedent.error)
             /\ report' = NoReport
        ELSE \E statsActuel \in DepensesParCategorie(cycleId, "statsActuel" \in fails),
                statsPrecedent \in DepensesParCategorie(cycleIdPrecedent,
                                                        "statsPrecedent" \in fails) :
               /\ result' = Res("getComparaisonMois", cycleId, TRUE, "none")
               /\ report' = ComparaisonOf(Val(actuel.data), Val(precedent.data),
                                          statsActuel, statsPrecedent)
     /\ UNCHANGED <<cycles, depenses, charges, pc, loc, dashboard, categories>>

\* ---- stats.service: the evolution over the last cycles ----

MoisNoms ==
  <<"Janvier", "Fevrier", "Mars", "Avril", "Mai", "Juin", "Juillet", "Aout",
    "Septembre", "Octobre", "Novembre", "Decembre">>

\* cycle a is of a later month than cycle b
Newer(a, b) == a.annee > b.annee \/ (a.annee = b.annee /\ a.mois > b.mois)

\* the orders in which .eq('user_id', userId).order('annee', desc)
\* .order('mois', desc) can return the ids of the user's cycles
MostRecentFirst(cyc, userId) ==
  LET ids == {c \in DOMAIN cyc : cyc[c].user_id = userId}
  IN {s \in [1..Cardinality(ids) -> ids] :
        /\ \A i, j \in DOMAIN s : i # j => s[i] # s[j]
        /\ \A i, j \in DOMAIN s : i < j => ~Newer(cyc[s[j]], cyc[s[i]])}

Min(a, b) == IF a <= b THEN a ELSE b

\* .limit(nbMois)
Limit(s, nbMois) == SubSeq(s, 1, Min(nbMois, Len(s)))

\* an evolution that keeps the order of the query
NotReversed(s) == s

\* evolution.reverse()
Reverse(s) == [i \in 1..Len(s) |-> s[Len(s) + 1 - i]]

\* the EvolutionDepenses entry of a cycle
EvolutionOf(cycle) ==
  [mois |-> MoisNoms[cycle.mois],
   annee |-> cycle.annee,
   total_depenses |-> cycle.total_depenses,
   total_charges |-> cycle.total_charges,
   reste |-> cycle.reste]

getEvolutionDepenses(userId, nbMois, fails) ==
  /\ IF "select" \in fails
     THEN /\ result' = Res("getEvolutionDepenses", NoId, FALSE, "store")
          /\ report' = NoReport
     ELSE \E ordered \in MostRecentFirst(cycles, userId) :
            LET selected == Limit(ordered, nbMois)
            IN /\ result' = Res("getEvolutionDepenses", NoId, TRUE, "none")
               /\ report' = [kind |-> "evolution",
                             evolution |->
                               Reverse([i \in DOMAIN selected |->
                                          EvolutionOf(cycles[selected[i]])])]
  /\ UNCHANGED <<cycles, depenses, charges, pc, loc, dashboard, categories>>

\* ---- lib/calculations and the dashboard's figures ----

calculerPourcentageUtilise(salaire, chargesTotal, depensesTotal) ==
  LET total == chargesTotal + depensesTotal
  IN IF salaire = 0 THEN Ratio(0, 1) ELSE Ratio(total * 100, salaire)

calculerTauxEpargne(reste, salaire) ==
  IF salaire = 0 THEN Ratio(0, 1) ELSE Ratio(reste * 100, salaire)

\* the dashboard's percentageUsed, from the cycle it shows ({} when it shows
\* none) and the total of the active charges it fetched
PercentageUsed(cycle, totalChargesActives) ==
  LET salaire == IF Has(cycle) THEN Val(cycle).salaire_reel ELSE 0
      depensesTotal == IF Has(cycle) THEN Val(cycle).total_depenses ELSE 0
  IN IF salaire > 0 THEN Ratio((totalChargesActives + depensesTotal) * 100, salaire)
     ELSE Ratio(0, 1)

\* ---- charges.service ----

createCharge(u, montant, actif, fails) ==
  LET id == FreeId(ChargeIds, DOMAIN charges)
  IN /\ "insert" \in fails \/ DOMAIN charges # ChargeIds
     /\ IF "insert" \in fails
        THEN /\ charges' = charges
             /\ result' = Res("createCharge", NoId, FALSE, "store")
        ELSE /\ charges' = (id :> [user_id |-> u, montant |-> montant, actif |-> actif])
                              @@ charges
             /\ result' = Res("createCharge", id, TRUE, "none")
     /\ UNCHANGED <<cycles, depenses, pc, loc, dashboard, categories>>
     /\ report' = NoReport

updateCharge(chargeId, updates, fails) ==
  LET error == RowError(charges, chargeId, "update", fails)
  IN /\ IF error # "none"
        THEN /\ charges' = charges
             /\ result' = Res("updateCharge", chargeId, FALSE, error)
        ELSE /\ charges' = [charges EXCEPT ![chargeId] = Merge(@, updates)]
             /\ result' = Res("updateCharge", chargeId, TRUE, "none")
     /\ UNCHANGED <<cycles, depenses, pc, loc, dashboard, categories>>
     /\ report' = NoReport

deleteCharge(chargeId, fails) ==
  LET error == RowError(charges, chargeId, "delete", fails)
  IN /\ IF error # "none"
        THEN /\ charges' = charges
             /\ result' = Res("deleteCharge", chargeId, FALSE, error)
        ELSE /\ charges' = Without(charges, chargeId)
             /\ result' = Res("deleteCharge", chargeId, TRUE, "none")
     /\ UNCHANGED <<cycles, depenses, pc, loc, dashboard, categories>>
     /\ report' = NoReport

\* a toggle that carries the owner's new active total into the owner's cycles
toggleChargeActiveSync(chargeId, actif, fails) ==
  LET error == RowError(charges, chargeId, "update", fails)
      toggled == [charges EXCEPT ![chargeId].actif = actif]
  IN /\ IF error # "none"
        THEN /\ charges' = charges
             /\ cycles' = cycles
             /\ result' = Res("toggleChargeActive", chargeId, FALSE, error)
        ELSE /\ charges' = toggled
             /\ cycles' = [c \in DOMAIN cycles |->
                             IF cycles[c].user_id = charges[chargeId].user_id
                             THEN [cycles[c] EXCEPT
                                     !.total_charges =
                                       ActiveChargesTotal(toggled, cycles[c].user_id)]
                             ELSE cycles[c]]
             /\ result' = Res("toggleChargeActive", chargeId, TRUE, "none")
     /\ UNCHANGED <<depenses, pc, loc, dashboard, categories>>
     /\ report' = NoReport

toggleChargeActive(chargeId, actif, fails) ==
  LET error == RowError(charges, chargeId, "update", fails)
  IN /\ IF error # "none"
        THEN /\ charges' = charges
             /\ result' = Res("toggleChargeActive", chargeId, FALSE, error)
        ELSE /\ charges' = [charges EXCEPT ![chargeId].actif = actif]
             /\ result' = Res("toggleChargeActive", chargeId, TRUE, "none")
     /\ UNCHANGED <<cycles, depenses, pc, loc, dashboard, categories>>
     /\ report' = NoReport

\* ---- the service calls, one at a time ----

\* the store calls of one invocation that fail: none, or one of them
OneOf(calls) == {{}} \cup {{c} : c \in calls}

RecomputeCalls == {"selectMontants", "selectCycle", "updateCycle"}

CreateCycleStep ==
  \E u \in CycleOwners, salaire \in Salaires, annee \in Annees, mois \in Moiss,
     totalCharges \in ChargeTotals, fails \in OneOf({"insert"}) :
    createCycle(u, salaire, annee, mois, totalCharges, fails)

CloseCycleStep ==
  \E cycleId \in CycleIds, fails \in OneOf({"select", "selectCharges", "update"}) :
    closeCycle(cycleId, fails)

UpdateCycleStep ==
  \E cycleId \in CycleIds, updates \in CycleUpdates, fails \in OneOf({"select", "update"}) :
    updateCycle(cycleId, updates, fails)

DeleteCycleStep ==
  \E cycleId \in CycleIds, fails \in OneOf({"delete"}) : deleteCycle(cycleId, fails)

CreateDepenseStep ==
  \E cycleId \in CycleIds, data \in DepenseForms,
     fails \in OneOf({"insert"} \cup RecomputeCalls) :
    \E u \in IF cycleId \in DOMAIN cycles THEN {cycles[cycleId].user_id} ELSE Users :
      createDepense(u, cycleId, data, fails)

UpdateDepenseStep ==
  \E depenseId \in DepenseIds, updates \in DepenseUpdates,
     fails \in OneOf({"update"} \cup RecomputeCalls) :
    updateDepense(depenseId, updates, fails)

DeleteDepenseStep ==
  \E depenseId \in DepenseIds, fails \in OneOf({"select", "delete"} \cup RecomputeCalls) :
    deleteDepense(depenseId, fails)

CreateChargeStep ==
  \E u \in Users, montant \in ChargeMontants, actif \in BOOLEAN,
     fails \in OneOf({"insert"}) :
    createCharge(u, montant, actif, fails)

UpdateChargeStep ==
  \E chargeId \in ChargeIds, updates \in ChargeUpdates, fails \in OneOf({"update"}) :
    updateCharge(chargeId, updates, fails)

DeleteChargeStep ==
  \E chargeId \in ChargeIds, fails \in OneOf({"delete"}) : deleteCharge(chargeId, fails)

ToggleChargeStep ==
  \E chargeId \in ChargeIds, actif \in BOOLEAN, fails \in OneOf({"update"}) :
    toggleChargeActive(chargeId, actif, fails)

GetStatsStep ==
  \E cycleId \in CycleIds, today \in Todays, fails \in OneOf({"select"}) :
    getStatsMensuel(cycleId, today, fails)

CreateCategorieStep ==
  \E u \in Users, data \in CategorieForms, fails \in OneOf({"insert"}) :
    createCategorie(u, data, fails)

UpdateCategorieStep ==
  \E categorieId \in CategorieIds, u \in Users, updates \in CategorieForms,
     fails \in OneOf({"select", "update"}) :
    updateCategorie(categorieId, u, updates, fails)

DeleteCategorieStep ==
  \E categorieId \in CategorieIds, u \in Users, fails \in OneOf({"select", "delete"}) :
    deleteCategorie(categorieId, u, fails)

\* cycles and fixed charges: the life of the cycles of the users
Next ==
  \/ CreateCycleStep
  \/ CloseCycleStep
  \/ UpdateCycleStep
  \/ DeleteCycleStep
  \/ CreateChargeStep
  \/ UpdateChargeStep
  \/ DeleteChargeStep
  \/ ToggleChargeStep

Spec == Init /\ [][Next]_vars

\* opening, closing and deleting cycles while the fixed charges change
NextCycles ==
  \/ CreateCycleStep
  \/ CloseCycleStep
  \/ DeleteCycleStep
  \/ CreateChargeStep
  \/ ToggleChargeStep

SpecCycles == Init /\ [][NextCycles]_vars

\* ---- hooks/useDashboard: fetchDashboardData ----

\* what getCycleActif(userId) returns: maybeSingle() answers the user's active
\* cycle, no data when there is none, and an error when the select fails or
\* more than one row matches
getCycleActif(userId, fails) ==
  LET active == {c \in DOMAIN cycles :
                   cycles[c].user_id = userId /\ cycles[c].statut = "actif"}
  IN IF "selectCycle" \in fails \/ Cardinality(active) > 1
     THEN [data |-> {}, error |-> "store"]
     ELSE [data |-> active, error |-> "none"]

\* an empty state that goes on showing the loading screen
EmptyDashboardLoading ==
  [cycle |-> {}, totalChargesActives |-> 0, loading |-> TRUE, error |-> FALSE]

\* the state set when there is no active cycle to show
EmptyDashboard ==
  [cycle |-> {}, totalChargesActives |-> 0, loading |-> FALSE, error |-> FALSE]

\* the catch block: setData((prev) => ({ ...prev, loading: false, error }))
Caught(prev) == [prev EXCEPT !.loading = FALSE, !.error = TRUE]

\* the way a run of fetchDashboardData ended, kept with the run
Ended(p, path) ==
  /\ pc' = [pc EXCEPT ![p] = "done"]
  /\ loc' = [loc EXCEPT ![p].op = path]

\* the effect runs for the user present: loading is set and getCycleActif is
\* awaited
StartFetch(p) ==
  /\ pc[p] = "idle"
  /\ dashboard' = [dashboard EXCEPT !.loading = TRUE, !.error = FALSE]
  /\ pc' = [pc EXCEPT ![p] = "fetchCycle"]
  /\ loc' = [loc EXCEPT ![p] = [NoLocals EXCEPT !.op = "fetchDashboardData"]]
  /\ UNCHANGED <<cycles, depenses, charges, result, categories, report>>

\* getCycleActif settles: it throws, returns an error, no cycle, or a cycle
FetchCycle(p, u) ==
  /\ pc[p] = "fetchCycle"
  /\ \E fails \in OneOf({"selectCycle"}), throws \in BOOLEAN :
       LET fetched == getCycleActif(u, fails)
       IN IF throws
          THEN /\ dashboard' = Caught(dashboard)
               /\ Ended(p, "thrown")
          ELSE IF fetched.error # "none"
          THEN /\ dashboard' = EmptyDashboard
               /\ Ended(p, "cycleError")
          ELSE IF ~Has(fetched.data)
          THEN /\ dashboard' = EmptyDashboard
               /\ Ended(p, "noCycle")
          ELSE /\ dashboard' = dashboard
               /\ pc' = [pc EXCEPT ![p] = "fetchAll"]
               /\ loc' = [loc EXCEPT ![p].cycle_id = Val(fetched.data)]
  /\ UNCHANGED <<cycles, depenses, charges, result, categories, report>>

\* Promise.all settles: one of the three fetches throws, or all return and
\* the state is set from the cycle and the charges (0 when their fetch failed)
FetchAll(p, u) ==
  /\ pc[p] = "fetchAll"
  /\ \E fails \in OneOf({"selectCharges"}), throws \in BOOLEAN :
       IF throws
       THEN /\ dashboard' = Caught(dashboard)
            /\ Ended(p, "thrown")
       ELSE /\ dashboard' = [cycle |-> {loc[p].cycle_id},
                             totalChargesActives |->
                               IF fails # {} THEN 0 ELSE ActiveChargesTotal(charges, u),
                             loading |-> FALSE,
                             error |-> FALSE]
            /\ Ended(p, "fetched")
  /\ UNCHANGED <<cycles, depenses, charges, result, categories, report>>

\* ---- cycles and their expenses, the store failing at will ----

\* the user has one active fixed charge, a sum that differs from the charges
\* total the cycles are opened with
InitLedger ==
  /\ cycles = EmptyTable
  /\ depenses = EmptyTable
  /\ charges = (1 :> [user_id |-> "u1", montant |-> 800, actif |-> TRUE])
  /\ result = Res("init", NoId, FALSE, "none")
  /\ pc = [p \in Procs |-> "idle"]
  /\ loc = [p \in Procs |-> NoLocals]
  /\ categories = DefaultCategories
  /\ report = NoReport
  /\ dashboard = NoDashboard

NextDepenses ==
  \/ CreateCycleStep
  \/ CloseCycleStep
  \/ DeleteCycleStep
  \/ CreateDepenseStep
  \/ UpdateDepenseStep
  \/ DeleteDepenseStep

SpecDepenses == InitLedger /\ [][NextDepenses]_vars

\* ---- cycles and their expenses, every store call succeeding ----

\* an update a caller of updateCycle sends: a new expenses total
LedgerUpdates == {[NoUpdate EXCEPT !.total_depenses = {450}]}

CreateCycleOk ==
  \E u \in CycleOwners, salaire \in Salaires, annee \in Annees, mois \in Moiss,
     totalCharges \in ChargeTotals :
    createCycle(u, salaire, annee, mois, totalCharges, {})

CloseCycleOk == \E cycleId \in CycleIds : closeCycle(cycleId, {})

UpdateCycleOk ==
  \E cycleId \in CycleIds, updates \in LedgerUpdates : updateCycle(cycleId, updates, {})

CreateDepenseOk ==
  \E cycleId \in DOMAIN cycles, data \in DepenseForms :
    createDepense(cycles[cycleId].user_id, cycleId, data, {})

UpdateDepenseOk ==
  \E depenseId \in DepenseIds, updates \in DepenseUpdates :
    updateDepense(depenseId, updates, {})

DeleteDepenseOk == \E depenseId \in DepenseIds : deleteDepense(depenseId, {})

NextLedger ==
  \/ CreateCycleOk
  \/ CloseCycleOk
  \/ UpdateCycleOk
  \/ CreateDepenseOk
  \/ UpdateDepenseOk
  \/ DeleteDepenseOk

SpecLedger == InitLedger /\ [][NextLedger]_vars

\* ---- callers running at the same time: one step per store call ----

\* one cycle has been opened; it has no expense yet
InitConc ==
  /\ cycles = (1 :> NewCycle("u1", 3000, 2025, 1, 500))
  /\ depenses = EmptyTable
  /\ charges = (1 :> [user_id |-> "u1", montant |-> 800, actif |-> TRUE])
  /\ result = Res("init", NoId, FALSE, "none")
  /\ pc = [p \in Procs |-> "idle"]
  /\ loc = [p \in Procs |-> NoLocals]
  /\ categories = DefaultCategories
  /\ report = NoReport
  /\ dashboard = NoDashboard

Goto(p, label, locals) ==
  /\ pc' = [pc EXCEPT ![p] = label]
  /\ loc' = [loc EXCEPT ![p] = locals]
  /\ UNCHANGED <<categories, report, dashboard>>

\* each caller issues one service call
Return(p, res) ==
  /\ pc' = [pc EXCEPT ![p] = "done"]
  /\ loc' = [loc EXCEPT ![p] = [NoLocals EXCEPT !.op = loc[p].op]]
  /\ result' = res
  /\ UNCHANGED <<categories, report, dashboard>>

\* createDepense: the insert
InsertDepense(p) ==
  /\ pc[p] = "idle"
  /\ DOMAIN depenses # DepenseIds
  /\ \E cycleId \in DOMAIN cycles, data \in DepenseForms :
       LET id == FreeId(DepenseIds, DOMAIN depenses)
       IN /\ depenses' = (id :> [user_id |-> cycles[cycleId].user_id,
                                 cycle_id |-> cycleId, montant |-> data.montant,
                                 categorie_id |-> data.categorie_id]) @@ depenses
          /\ Goto(p, "selectMontants",
                  [NoLocals EXCEPT !.op = "createDepense", !.id = id, !.cycle_id = cycleId])
  /\ UNCHANGED <<cycles, charges, result>>

\* updateDepense with a montant: the update
UpdateDepense(p) ==
  /\ pc[p] = "idle"
  /\ \E depenseId \in DOMAIN depenses, montant \in DepenseMontants :
       /\ depenses' = [depenses EXCEPT ![depenseId] = Merge(@, [montant |-> {montant}])]
       /\ Goto(p, "selectMontants",
               [NoLocals EXCEPT !.op = "updateDepense", !.id = depenseId,
                                !.cycle_id = depenses[depenseId].cycle_id])
  /\ UNCHANGED <<cycles, charges, result>>

\* deleteDepense: the select of the expense to delete
SelectDepense(p) ==
  /\ pc[p] = "idle"
  /\ \E depenseId \in DOMAIN depenses :
       Goto(p, "delete",
            [NoLocals EXCEPT !.op = "deleteDepense", !.id = depenseId,
                             !.cycle_id = depenses[depenseId].cycle_id])
  /\ UNCHANGED <<cycles, depenses, charges, result>>

\* deleteDepense: the delete
DeleteDepense(p) ==
  /\ pc[p] = "delete"
  /\ IF loc[p].id \in DOMAIN depenses
     THEN /\ depenses' = Without(depenses, loc[p].id)
          /\ Goto(p, "selectMontants", loc[p])
          /\ UNCHANGED result
     ELSE /\ depenses' = depenses
          /\ Return(p, Res("deleteDepense", loc[p].id, FALSE, "notfound"))
  /\ UNCHANGED <<cycles, charges>>

\* updateCycleTotalDepenses: getTotalDepenses
SelectMontants(p) ==
  /\ pc[p] = "selectMontants"
  /\ Goto(p, "selectCycle",
          [loc[p] EXCEPT !.total = getTotalDepenses(depenses, loc[p].cycle_id)])
  /\ UNCHANGED <<cycles, depenses, charges, result>>

\* updateCycleTotalDepenses: the select of salaire_reel and total_charges
SelectCycle(p) ==
  /\ pc[p] = "selectCycle"
  /\ Goto(p, "updateCycle",
          [loc[p] EXCEPT !.updates = TotalsUpdates(loc[p].total, cycles[loc[p].cycle_id])])
  /\ UNCHANGED <<cycles, depenses, charges, result>>

\* a recompute that sums the expenses again inside its update
UpdateTotalsGuarded(p) ==
  /\ pc[p] = "updateCycle"
  /\ cycles' = [cycles EXCEPT
                  ![loc[p].cycle_id] =
                    Merge(@, TotalsUpdates(getTotalDepenses(depenses, loc[p].cycle_id), @))]
  /\ Return(p, Res(loc[p].op, loc[p].id, TRUE, "none"))
  /\ UNCHANGED <<depenses, charges>>

\* updateCycleTotalDepenses: the update of the cycle; the expense call returns
UpdateTotals(p) ==
  /\ pc[p] = "updateCycle"
  /\ cycles' = [cycles EXCEPT ![loc[p].cycle_id] = Merge(@, loc[p].updates)]
  /\ Return(p, Res(loc[p].op, loc[p].id, TRUE, "none"))
  /\ UNCHANGED <<depenses, charges>>

\* closeCycle: the select of the cycle
CloseSelectCycle(p) ==
  /\ pc[p] = "idle"
  /\ \E cycleId \in DOMAIN cycles :
       Goto(p, "closeSelectCharges",
            [NoLocals EXCEPT !.op = "closeCycle", !.id = cycleId, !.cycle_id = cycleId,
                             !.total = cycles[cycleId].total_depenses,
                             !.updates = [NoUpdate EXCEPT
                                            !.salaire_reel = {cycles[cycleId].salaire_reel}]])
  /\ UNCHANGED <<cycles, depenses, charges, result>>

\* closeCycle: the select of the active charges
CloseSelectCharges(p) ==
  /\ pc[p] = "closeSelectCharges"
  /\ LET currentCycle == [cycles[loc[p].cycle_id] EXCEPT
                            !.salaire_reel = Val(loc[p].updates.salaire_reel),
                            !.total_depenses = loc[p].total]
     IN Goto(p, "closeUpdate", [loc[p] EXCEPT !.updates = CloseUpdates(currentCycle, charges)])
  /\ UNCHANGED <<cycles, depenses, charges, result>>

\* closeCycle: the update
CloseUpdate(p) ==
  /\ pc[p] = "closeUpdate"
  /\ cycles' = [cycles EXCEPT ![loc[p].cycle_id] = Merge(@, loc[p].updates)]
  /\ Return(p, Res("closeCycle", loc[p].id, TRUE, "none"))
  /\ UNCHANGED <<depenses, charges>>

\* updateCycle with a salary: the select of the current totals
UpdateSelectCycle(p) ==
  /\ pc[p] = "idle"
  /\ \E cycleId \in DOMAIN cycles, salaire \in {1000, 3000} :
       Goto(p, "cycleUpdate",
            [NoLocals EXCEPT !.op = "updateCycle", !.id = cycleId, !.cycle_id = cycleId,
                             !.updates = WithReste([NoUpdate EXCEPT !.salaire_reel = {salaire}],
                                                   {cycles[cycleId]})])
  /\ UNCHANGED <<cycles, depenses, charges, result>>

\* updateCycle: the update
UpdateCycle(p) ==
  /\ pc[p] = "cycleUpdate"
  /\ cycles' = [cycles EXCEPT ![loc[p].cycle_id] = Merge(@, loc[p].updates)]
  /\ Return(p, Res("updateCycle", loc[p].id, TRUE, "none"))
  /\ UNCHANGED <<depenses, charges>>

NextConc ==
  \E p \in Procs :
    \/ InsertDepense(p)
    \/ UpdateDepense(p)
    \/ SelectDepense(p)
    \/ DeleteDepense(p)
    \/ SelectMontants(p)
    \/ SelectCycle(p)
    \/ UpdateTotals(p)
    \/ CloseSelectCycle(p)
    \/ CloseSelectCharges(p)
    \/ CloseUpdate(p)
    \/ UpdateSelectCycle(p)
    \/ UpdateCycle(p)

SpecConc == InitConc /\ [][NextConc]_vars

\* ---- the expenses of one open cycle, the store failing at will ----

NextRefresh ==
  \/ CreateDepenseStep
  \/ UpdateDepenseStep
  \/ DeleteDepenseStep

SpecRefresh == InitConc /\ [][NextRefresh]_vars

\* ---- the monthly summary of cycles of any income ----

\* incomes createCycle is called with: negative, none, positive
StatsSalaires == {-1000, 0, 3000}

CreateCycleStats ==
  \E u \in CycleOwners, salaire \in StatsSalaires, annee \in Annees, mois \in Moiss,
     totalCharges \in ChargeTotals :
    createCycle(u, salaire, annee, mois, totalCharges, {})

NextStats ==
  \/ CreateCycleStats
  \/ UpdateCycleOk
  \/ GetStatsStep

SpecStats == Init /\ [][NextStats]_vars

\* ---- every ledger operation on one month, the store failing at will ----

\* the same cycle is asked for each time: opened once, a duplicate afterwards
CreateCycleAgain ==
  \E fails \in OneOf({"insert"}) : createCycle("u1", 3000, 2025, 1, 500, fails)

UpdateLedgerStep ==
  \E cycleId \in CycleIds, updates \in LedgerUpdates,
     fails \in OneOf({"select", "update"}) :
    updateCycle(cycleId, updates, fails)

NextResults ==
  \/ CreateCycleAgain
  \/ CloseCycleStep
  \/ UpdateLedgerStep
  \/ CreateDepenseStep
  \/ UpdateDepenseStep
  \/ DeleteDepenseStep
  \/ GetStatsStep

SpecResults == Init /\ [][NextResults]_vars

\* ---- the fixed charges next to cycles that are opened and closed ----

NextCharges ==
  \/ CreateCycleOk
  \/ CloseCycleOk
  \/ CreateChargeStep
  \/ UpdateChargeStep
  \/ DeleteChargeStep
  \/ ToggleChargeStep

SpecCharges == Init /\ [][NextCharges]_vars

\* ---- the categories of two users next to the default one ----

NextCategories ==
  \/ CreateCategorieStep
  \/ UpdateCategorieStep
  \/ DeleteCategorieStep

SpecCategories == Init /\ [][NextCategories]_vars

\* ---- the category breakdown of the expenses of two cycles ----

\* two cycles have been opened, neither with an expense yet, and the user has
\* added a category with a budget
InitBreakdown ==
  /\ cycles = (1 :> NewCycle("u1", 3000, 2025, 1, 500))
                @@ (2 :> NewCycle("u1", 3000, 2025, 2, 500))
  /\ depenses = EmptyTable
  /\ charges = EmptyTable
  /\ result = Res("init", NoId, FALSE, "none")
  /\ pc = [p \in Procs |-> "idle"]
  /\ loc = [p \in Procs |-> NoLocals]
  /\ categories = DefaultCategories @@ (2 :> [user_id |-> "u1", budget_max |-> {200}])
  /\ report = NoReport
  /\ dashboard = NoDashboard

\* amounts of the expenses: nothing, and an amount that equals the budget
BreakdownMontants == {0, 200}

\* the user sets the budget of a category of theirs to 0
UpdateCategorieBudget ==
  \E categorieId \in DOMAIN categories :
    updateCategorie(categorieId, "u1", [budget_max |-> {0}], {})

CreateDepenseIn ==
  \E cycleId \in DOMAIN cycles, montant \in BreakdownMontants,
     categorieId \in DOMAIN categories :
    createDepense(cycles[cycleId].user_id, cycleId,
                  [montant |-> montant, categorie_id |-> categorieId], {})

GetDepensesParCategorieStep ==
  \E cycleId \in DOMAIN cycles, fails \in OneOf({"select"}) :
    getDepensesParCategorie(cycleId, fails)

NextBreakdown ==
  \/ UpdateCategorieBudget
  \/ CreateDepenseIn
  \/ GetDepensesParCategorieStep

SpecBreakdown == InitBreakdown /\ [][NextBreakdown]_vars

\* ---- the comparison of a month with the month before ----

\* the month before has been closed with an income of 0, charges of 500 and
\* two expenses recorded earlier, 200 in the default category and 100 in a
\* category of the user's; the month after it is open
InitComparaison ==
  /\ cycles = (1 :> [NewCycle("u1", 0, 2025, 1, 500) EXCEPT
                       !.total_depenses = 300, !.reste = -800, !.statut = "cloture"])
                @@ (2 :> NewCycle("u1", 3000, 2025, 2, 500))
  /\ depenses = (11 :> [user_id |-> "u1", cycle_id |-> 1, montant |-> 200,
                        categorie_id |-> 1])
                  @@ (12 :> [user_id |-> "u1", cycle_id |-> 1, montant |-> 100,
                             categorie_id |-> 2])
  /\ charges = (1 :> [user_id |-> "u1", montant |-> 500, actif |-> TRUE])
  /\ result = Res("init", NoId, FALSE, "none")
  /\ pc = [p \in Procs |-> "idle"]
  /\ loc = [p \in Procs |-> NoLocals]
  /\ categories = DefaultCategories @@ (2 :> [user_id |-> "u1", budget_max |-> {}])
  /\ report = NoReport
  /\ dashboard = NoDashboard

\* amounts that move a category by -50, 0, +5, +25, +110 and +150 percent
ComparaisonMontants == {100, 210, 250}

\* the user records an expense in the cycle that is open
CreateDepenseActive ==
  \E cycleId \in DOMAIN cycles, montant \in ComparaisonMontants,
     categorieId \in DOMAIN categories :
    /\ cycles[cycleId].statut = "actif"
    /\ createDepense(cycles[cycleId].user_id, cycleId,
                     [montant |-> montant, categorie_id |-> categorieId], {})

GetComparaisonStep ==
  \E cycleId \in CycleIds, cycleIdPrecedent \in CycleIds, fails \in OneOf(ComparaisonCalls) :
    getComparaisonMois(cycleId, cycleIdPrecedent, fails)

NextComparaison ==
  \/ CreateDepenseActive
  \/ GetComparaisonStep

SpecComparaison == InitComparaison /\ [][NextComparaison]_vars

\* ---- the evolution over the cycles of two users, opened in any order ----

\* December and January of two years: the later year has the earlier month
EvolutionAnnees == {2025, 2026}
EvolutionMoiss == {1, 12}

\* how many cycles the evolution is asked for; 6 is the default
NbMois == {1, 2, 6}

CreateCycleAnyMonth ==
  \E u \in Users, annee \in EvolutionAnnees, mois \in EvolutionMoiss :
    createCycle(u, 3000, annee, mois, 500, {})

GetEvolutionStep ==
  \E u \in Users, nbMois \in NbMois, fails \in OneOf({"select"}) :
    getEvolutionDepenses(u, nbMois, fails)

NextEvolution ==
  \/ CreateCycleAnyMonth
  \/ UpdateCycleOk
  \/ DeleteCycleStep
  \/ GetEvolutionStep

SpecEvolution == Init /\ [][NextEvolution]_vars

\* ---- the dashboard: closing the cycle and rolling over ----

\* the clock readings of the roll-over, as (annee, mois): the month of the
\* first cycle, the month after it and a December
Nows == {<<2025, 1>>, <<2025, 2>>, <<2025, 12>>}

\* new Date(now.getFullYear(), now.getMonth() + 1, 1): the month after now
NextMonth(now) == IF now[2] = 12 THEN <<now[1] + 1, 1>> ELSE <<now[1], now[2] + 1>>

\* the incomes typed into the roll-over form
RolloverSalaires == {0, 3000}

\* the cycle the dashboard shows: what getCycleActif's maybeSingle() returned,
\* the user's active cycle when there is exactly one
DashboardCycle(u) ==
  LET active == {c \in DOMAIN cycles : cycles[c].user_id = u /\ cycles[c].statut = "actif"}
  IN IF Cardinality(active) = 1 THEN active ELSE {}

\* a flow that goes on to the roll-over whatever closeCycle returned
CloseReturned == result.op = "closeCycle"

\* handleCloseCycle goes on after closeCycle only without a closeError
CloseSucceeded == result.op = "closeCycle" /\ result.error = "none"

\* handleCloseCycle up to the return of closeCycle(cycle.id)
HandleCloseCycle ==
  \E u \in CycleOwners, fails \in OneOf({"select", "selectCharges", "update"}) :
    /\ ~CloseSucceeded
    /\ Has(DashboardCycle(u))
    /\ closeCycle(Val(DashboardCycle(u)), fails)

\* handleCloseCycle with createNewCycle checked, after closeCycle returned:
\* createCycle for the month after now
HandleRollOver ==
  \E now \in Nows, newCycleSalaire \in RolloverSalaires, fails \in OneOf({"insert"}) :
    /\ CloseSucceeded
    /\ LET u == cycles[result.id].user_id
       IN createCycle(u, newCycleSalaire, NextMonth(now)[1], NextMonth(now)[2],
                      ActiveChargesTotal(charges, u), fails)

NextRollOver ==
  \/ HandleCloseCycle
  \/ HandleRollOver
  \/ CreateChargeStep
  \/ ToggleChargeStep

SpecRollOver == InitConc /\ [][NextRollOver]_vars

\* ---- the dashboard fetching its data while cycles are opened and closed ----

\* the user that is signed in
DashboardUser == "u1"

FetchStep(p) ==
  \/ StartFetch(p)
  \/ FetchCycle(p, DashboardUser)
  \/ FetchAll(p, DashboardUser)

NextDashboard ==
  \/ \E p \in Procs : FetchStep(p)
  \/ CreateCycleOk
  \/ CloseCycleOk
  \/ ToggleChargeStep

SpecDashboard == InitLedger /\ [][NextDashboard]_vars

\* an awaited call settles: a run that has started is not left waiting
SpecDashboardLive ==
  /\ SpecDashboard
  /\ \A p \in Procs : WF_vars(FetchCycle(p, DashboardUser))
  /\ \A p \in Procs : WF_vars(FetchAll(p, DashboardUser))

\* ---- properties of the cycles ----

CloseCalls == {"select", "selectCharges", "update"}

KeyTaken(u, annee, mois) ==
  \E c \in DOMAIN cycles :
    cycles[c].user_id = u /\ cycles[c].annee = annee /\ cycles[c].mois = mois

UniqueKeys ==
  \A c, d \in DOMAIN cycles :
    (cycles[c].user_id = cycles[d].user_id /\ cycles[c].annee = cycles[d].annee
       /\ cycles[c].mois = cycles[d].mois) => c = d

\* C1: after any sequence of cycle and expense operations, each run to
\* completion, every stored cycle has reste = salaire_reel - total_charges -
\* total_depenses.
C1_ResteInvariant ==
  \A c \in DOMAIN cycles :
    cycles[c].reste
      = cycles[c].salaire_reel - cycles[c].total_charges - cycles[c].total_depenses

\* C3: in every reachable state each user has at most one cycle whose statut
\* is 'actif'.
C3_OneActivePerUser ==
  \A u \in Users :
    Cardinality({c \in DOMAIN cycles :
                   cycles[c].user_id = u /\ cycles[c].statut = "actif"}) <= 1

\* C4: createCycle for a (user, annee, mois) that already has a cycle answers
\* the duplicate error, which differs from the error of a failed store call,
\* and leaves the cycles as they were; no two stored cycles share a key.
C4_DuplicateRejected ==
  /\ []UniqueKeys
  /\ [][result'.op = "createCycle" =>
        \A u \in CycleOwners, salaire \in Salaires, annee \in Annees,
          mois \in Moiss, totalCharges \in ChargeTotals :
          /\ (KeyTaken(u, annee, mois)
                /\ createCycle(u, salaire, annee, mois, totalCharges, {}))
               => (result'.error = "duplicate" /\ ~result'.data /\ cycles' = cycles)
          /\ createCycle(u, salaire, annee, mois, totalCharges, {"insert"})
               => (result'.error = "store" /\ ~result'.data /\ cycles' = cycles)]_vars

C4_Witness ==
  /\ result.op = "createCycle"
  /\ result.error = "duplicate"
  /\ cycles # EmptyTable

\* C6: closeCycle on a cycle whose statut is already 'cloture' is rejected
\* with an error and leaves the cycle unchanged.
C6_CloseClosedRejected ==
  [][\A cycleId \in DOMAIN cycles, fails \in OneOf(CloseCalls) :
       (cycles[cycleId].statut = "cloture" /\ closeCycle(cycleId, fails))
         => (result'.error # "none" /\ cycles' = cycles)]_vars

\* C7: once a cycle's statut is 'cloture' it is 'cloture' in every later state
\* in which the cycle is stored.
C7_ClosureTerminal ==
  [][\A c \in DOMAIN cycles :
       (cycles[c].statut = "cloture" /\ c \in DOMAIN cycles')
         => cycles'[c].statut = "cloture"]_vars

\* C9: closeCycle is all-or-nothing: when the fetch of the cycle or of the
\* active charges fails (or the update does), it answers an error and no cycle
\* changes; otherwise the one update sets statut, total_charges and reste
\* together, from the owner's active charges.
C9_CloseAllOrNothing ==
  [][result'.op = "closeCycle" =>
     \A cycleId \in CycleIds, fails \in OneOf(CloseCalls) :
       closeCycle(cycleId, fails) =>
         IF fails # {} \/ cycleId \notin DOMAIN cycles
         THEN result'.error # "none" /\ ~result'.data /\ cycles' = cycles
         ELSE LET live == SumMontant(charges,
                            {k \in DOMAIN charges :
                               /\ charges[k].user_id = cycles[cycleId].user_id
                               /\ charges[k].actif})
              IN /\ result'.error = "none"
                 /\ cycles'[cycleId].statut = "cloture"
                 /\ cycles'[cycleId].total_charges = live
                 /\ cycles'[cycleId].reste
                      = cycles[cycleId].salaire_reel - live
                          - cycles[cycleId].total_depenses
                 /\ \A c \in DOMAIN cycles \ {cycleId} : cycles'[c] = cycles[c]]_vars

\* a closure that failed on a stored active cycle whose total_charges differs
\* from the owner's active charges
C9_Witness ==
  /\ result.op = "closeCycle"
  /\ result.error = "store"
  /\ result.id \in DOMAIN cycles
  /\ cycles[result.id].statut = "actif"
  /\ cycles[result.id].total_charges
       # ActiveChargesTotal(charges, cycles[result.id].user_id)

ChargeOps == {"createCharge", "updateCharge", "deleteCharge", "toggleChargeActive"}

\* C15: creating, editing, deleting or toggling a fixed charge, whether the
\* call succeeds or fails, leaves every cycle as it was, the closed ones with
\* the total_charges and reste frozen at their closure.
C15_ChargeOpsLeaveCycles ==
  [][result'.op \in ChargeOps => cycles' = cycles]_vars

\* the owner's only charge was deleted after a cycle was closed with it: the
\* closed cycle keeps total_charges 800 and reste 2200
C15_Witness ==
  /\ result.op = "deleteCharge"
  /\ result.error = "none"
  /\ charges = EmptyTable
  /\ \E c \in DOMAIN cycles :
       /\ cycles[c].statut = "cloture"
       /\ cycles[c].total_charges = 800
       /\ cycles[c].reste = 2200

\* ---- properties of the expenses ----

ExpenseOps == {"createDepense", "updateDepense", "deleteDepense"}

\* the cycle's stored totals agree with its expenses in tables cyc, dep
TotalsExact(cyc, dep, c) ==
  /\ cyc[c].total_depenses = SumMontant(dep, {d \in DOMAIN dep : dep[d].cycle_id = c})
  /\ cyc[c].reste = cyc[c].salaire_reel - cyc[c].total_charges - cyc[c].total_depenses

\* C2 as stated: with every store call succeeding, after each createDepense,
\* updateDepense or deleteDepense that returned without error the owning
\* cycle's total_depenses is the sum of its expenses and its reste is
\* salaire_reel - total_charges - total_depenses.
C2_TotalsAfterAnyExpenseOp ==
  [][(result'.op \in ExpenseOps /\ result'.error = "none") =>
       LET owner == IF result'.op = "deleteDepense"
                    THEN depenses[result'.id].cycle_id
                    ELSE depenses'[result'.id].cycle_id
       IN TotalsExact(cycles', depenses', owner)]_vars

\* C2 amended: with every store call succeeding, after each createDepense,
\* each deleteDepense and each updateDepense whose update carries montant the
\* owning cycle's total_depenses is the sum of its expenses and its reste is
\* salaire_reel - total_charges - total_depenses.
C2_TotalsAfterExpenseOp ==
  [][result'.op \in ExpenseOps =>
      /\ \A cycleId \in DOMAIN cycles, data \in DepenseForms :
           createDepense(cycles[cycleId].user_id, cycleId, data, {})
             => (result'.error = "none" /\ TotalsExact(cycles', depenses', cycleId))
      /\ \A depenseId \in DOMAIN depenses, montant \in DepenseMontants :
           updateDepense(depenseId, [montant |-> {montant}], {})
             => (result'.error = "none"
                   /\ TotalsExact(cycles', depenses', depenses[depenseId].cycle_id))
      /\ \A depenseId \in DOMAIN depenses :
           deleteDepense(depenseId, {})
             => (result'.error = "none"
                   /\ TotalsExact(cycles', depenses', depenses[depenseId].cycle_id))]_vars

\* an expense operation returned, two cycles are stored and the one that
\* owns the expense holds it next to another expense of its own
C2_Witness ==
  /\ result.op \in {"createDepense", "updateDepense"}
  /\ result.error = "none"
  /\ Cardinality(DOMAIN cycles) = 2
  /\ LET c == depenses[result.id].cycle_id
     IN /\ Cardinality({d \in DOMAIN depenses : depenses[d].cycle_id = c}) = 2
        /\ cycles[c].total_depenses = 450
        /\ cycles[c].reste = 2050

\* C5: closeCycle on an active cycle sets total_charges to the sum of the
\* owner's charges that are active at that moment, reste to salaire_reel
\* minus that sum minus total_depenses, statut to 'cloture', and leaves
\* salaire_reel and total_depenses as they were.
C5_CloseFreezesLiveCharges ==
  [][(result'.op = "closeCycle" /\ result'.error = "none"
        /\ cycles[result'.id].statut = "actif") =>
       LET c == result'.id
           live == SumMontant(charges,
                     {k \in DOMAIN charges :
                        charges[k].user_id = cycles[c].user_id /\ charges[k].actif})
       IN /\ cycles'[c].total_charges = live
          /\ cycles'[c].reste = cycles[c].salaire_reel - live - cycles[c].total_depenses
          /\ cycles'[c].statut = "cloture"
          /\ cycles'[c].salaire_reel = cycles[c].salaire_reel
          /\ cycles'[c].total_depenses = cycles[c].total_depenses]_vars

\* income 3000, active charges 800, expenses 450: closed with total_charges
\* 800 and reste 1750
C5_Witness ==
  /\ result.op = "closeCycle"
  /\ result.error = "none"
  /\ cycles[result.id].salaire_reel = 3000
  /\ cycles[result.id].total_depenses = 450
  /\ cycles[result.id].total_charges = 800
  /\ cycles[result.id].reste = 1750
  /\ cycles[result.id].statut = "cloture"

\* C8: after a cycle is closed, no createDepense, updateDepense or
\* deleteDepense changes its total_depenses or reste.
C8_ClosedTotalsFrozen ==
  [][\A c \in DOMAIN cycles :
       (cycles[c].statut = "cloture" /\ c \in DOMAIN cycles'
          /\ result'.op \in ExpenseOps)
         => (cycles'[c].total_depenses = cycles[c].total_depenses
               /\ cycles'[c].reste = cycles[c].reste)]_vars

\* ---- properties of callers running at the same time ----

\* C10: the recompute is a read-modify-write without a guard: its update
\* stores the sum it read earlier, whatever the expenses are by then; the
\* witness is the lost update, two expense mutations completed and
\* total_depenses differing from the sum of the cycle's expenses.
C10_RecomputeUnguarded ==
  [][\A p \in Procs :
       (pc[p] = "updateCycle" /\ pc'[p] = "done")
         => cycles'[loc[p].cycle_id].total_depenses = loc[p].total]_vars

C10_LostUpdate ==
  /\ \A p \in Procs : pc[p] = "done" /\ loc[p].op \in ExpenseOps
  /\ \E c \in DOMAIN cycles :
       cycles[c].total_depenses
         # SumMontant(depenses, {d \in DOMAIN depenses : depenses[d].cycle_id = c})


\* ---- properties of the refresh of the totals ----

\* C11: when the write of createDepense, updateDepense or deleteDepense
\* succeeds and a call of the refresh fails (the sum of the expenses, the read
\* of the cycle or the write of the cycle), the operation answers its data
\* without error and the cycles stay as they were; when no call fails, the
\* refresh makes the owning cycle's totals exact again.
C11_RefreshFailureNonFatal ==
  [][result'.op \in ExpenseOps =>
      \A fails \in OneOf(RecomputeCalls) :
        /\ result'.op = "createDepense" =>
             \A cycleId \in DOMAIN cycles, data \in DepenseForms :
               createDepense(cycles[cycleId].user_id, cycleId, data, fails)
                 => /\ result'.error = "none" /\ result'.data
                    /\ result'.id \in DOMAIN depenses' \ DOMAIN depenses
                    /\ IF fails = {} THEN TotalsExact(cycles', depenses', cycleId)
                       ELSE cycles' = cycles
        /\ (result'.op = "updateDepense" /\ result'.id \in DOMAIN depenses) =>
             \A updates \in DepenseUpdates :
               updateDepense(result'.id, updates, fails)
                 => /\ result'.error = "none" /\ result'.data
                    /\ IF fails = {}
                       THEN Has(updates.montant)
                              => TotalsExact(cycles', depenses',
                                             depenses[result'.id].cycle_id)
                       ELSE cycles' = cycles
        /\ (result'.op = "deleteDepense" /\ result'.id \in DOMAIN depenses) =>
             (deleteDepense(result'.id, fails)
                => /\ result'.error = "none" /\ result'.data
                   /\ result'.id \notin DOMAIN depenses'
                   /\ IF fails = {}
                      THEN TotalsExact(cycles', depenses', depenses[result'.id].cycle_id)
                      ELSE cycles' = cycles)]_vars

\* createDepense stored the expense and answered without error while the
\* owning cycle still holds the totals it had before
C11_Witness ==
  /\ result.op = "createDepense"
  /\ result.error = "none"
  /\ result.id \in DOMAIN depenses
  /\ ~TotalsExact(cycles, depenses, depenses[result.id].cycle_id)

\* ---- properties of updateCycle ----

\* the reste that updateCycle(cycleId, updates) is to store: S - C - D, each
\* the update's value when given and the stored value otherwise
MergedReste(cycleId, updates) ==
  LET S == IF Has(updates.salaire_reel) THEN Val(updates.salaire_reel)
           ELSE cycles[cycleId].salaire_reel
      C == IF Has(updates.total_charges) THEN Val(updates.total_charges)
           ELSE cycles[cycleId].total_charges
      D == IF Has(updates.total_depenses) THEN Val(updates.total_depenses)
           ELSE cycles[cycleId].total_depenses
  IN S - C - D

\* C12: an updateCycle that carries salaire_reel, total_charges or
\* total_depenses and returns without error has stored reste = S - C - D over
\* the merged values, whatever reste the caller passed.
C12_UpdateStoresRecomputedReste ==
  [][result'.op = "updateCycle" =>
      \A cycleId \in DOMAIN cycles, updates \in CycleUpdates,
         fails \in OneOf({"select", "update"}) :
        (/\ updateCycle(cycleId, updates, fails)
         /\ result'.error = "none"
         /\ (Has(updates.salaire_reel) \/ Has(updates.total_charges)
               \/ Has(updates.total_depenses)))
          => cycles'[cycleId].reste = MergedReste(cycleId, updates)]_vars

\* ---- properties of the categories ----

\* C16: updateCategorie and deleteCategorie called by a user for a category
\* that is not stored, is a default one (user_id null) or is another user's
\* answer an error and leave the categories as they were; the default category
\* stays stored and unchanged throughout.
C16_OnlyOwnCategories ==
  /\ [](1 \in DOMAIN categories /\ categories[1] = DefaultCategories[1])
  /\ [][result'.op \in {"updateCategorie", "deleteCategorie"} =>
        LET categorieId == result'.id
        IN \A u \in Users :
             (categorieId \notin DOMAIN categories \/ categories[categorieId].user_id # u)
               => \A fails \in OneOf({"select", "update", "delete"}) :
                    (IF result'.op = "updateCategorie"
                     THEN \E updates \in CategorieForms :
                            updateCategorie(categorieId, u, updates, fails)
                     ELSE deleteCategorie(categorieId, u, fails))
                      => (categories' = categories /\ result'.error # "none"
                            /\ ~result'.data)]_vars

\* a call for the default category was refused while another category, one
\* with a budget, is stored
C16_Witness ==
  /\ result.op \in {"updateCategorie", "deleteCategorie"}
  /\ result.id = 1
  /\ result.error = "forbidden"
  /\ \E c \in DOMAIN categories : categories[c].budget_max = {200}

\* ---- properties of the results ----

LedgerOps ==
  {"createCycle", "closeCycle", "updateCycle", "createDepense", "updateDepense",
   "deleteDepense", "getStatsMensuel"}

\* C13: what a cycle-ledger operation returns holds data or an error, never
\* both and never neither: data is there exactly when the error is not, and
\* the summary's data is a StatsMensuel exactly when it has no error.
C13_DataXorError ==
  result.op \in LedgerOps =>
    /\ result.data = (result.error = "none")
    /\ result.error \in {"none", "duplicate", "store", "notfound"}
    /\ result.op = "getStatsMensuel" => (result.data = (report.kind = "stats"))

\* a summary asked for a cycle that is not stored, after an expense was
\* recorded: no data, and the store's error
C13_Witness ==
  /\ result.op = "getStatsMensuel"
  /\ result.error = "notfound"
  /\ ~result.data
  /\ depenses # EmptyTable

\* ---- properties of the monthly summary ----

\* ratio r is the number n / d
IsQuotient(r, n, d) == r.den > 0 /\ r.num * d = n * r.den

C18_DaysClamped ==
  [][result'.op = "getStatsMensuel" =>
      \A cycleId \in DOMAIN cycles, today \in Todays :
        getStatsMensuel(cycleId, today, {}) =>
          LET c == cycles[cycleId]
              ecoules == JoursEcoules(c, today)
              restants == report'.jours_restants
              jours == DaysInMonth(c.annee, c.mois)
          IN /\ ecoules >= 0 /\ restants >= 0
             /\ (ecoules = 0) = (today <= DateDebut(c))
             /\ ecoules > 0 =>
                  (24 * (ecoules - 1) < today - DateDebut(c)
                     /\ today - DateDebut(c) <= 24 * ecoules)
             /\ restants = IF ecoules >= jours THEN 0 ELSE jours - ecoules
             /\ today > DateFin(c) => restants = 0
             /\ IF ecoules = 0
                THEN IsQuotient(report'.depenses_par_jour, 0, 1)
                ELSE IsQuotient(report'.depenses_par_jour, c.total_depenses, ecoules)
             /\ IF restants = 0
                THEN IsQuotient(report'.budget_journalier_restant, c.reste, 1)
                ELSE IsQuotient(report'.budget_journalier_restant, c.reste, restants)]_vars

\* a summary asked for after the period is over: no day remains and the daily
\* budget is the reste itself, here a negative one
C18_Witness ==
  /\ result.op = "getStatsMensuel"
  /\ result.error = "none"
  /\ report.jours_restants = 0
  /\ report.reste = -950
  /\ report.budget_journalier_restant = [num |-> -950, den |-> 1]
  /\ report.depenses_par_jour.num > 0

\* ---- properties of the category breakdown ----

RECURSIVE SumTotals(_)
SumTotals(groups) ==
  IF groups = <<>> THEN 0 ELSE Head(groups).total + SumTotals(Tail(groups))

\* C19: the breakdown of a cycle partitions the cycle's expenses by
\* categorie_id: every expense of the cycle falls in exactly one group, no
\* group is empty, a group's total is the sum and its nombre_depenses the
\* count of its expenses, the totals add up to the cycle's expense sum,
\* pourcentage is total / sum x 100 (0 when the sum is 0), and the groups come
\* by total, highest first.
C19_BreakdownPartitions ==
  (result.op = "getDepensesParCategorie" /\ result.error = "none") =>
    LET groups == report.groups
        rows == {d \in DOMAIN depenses : depenses[d].cycle_id = result.id}
        sum == SumMontant(depenses, rows)
        Members(i) == {d \in rows : depenses[d].categorie_id = groups[i].categorie_id}
    IN /\ \A d \in rows : Cardinality({i \in DOMAIN groups : d \in Members(i)}) = 1
       /\ \A i \in DOMAIN groups :
            /\ Members(i) # {}
            /\ groups[i].total = SumMontant(depenses, Members(i))
            /\ groups[i].nombre_depenses = Cardinality(Members(i))
            /\ IF sum = 0 THEN IsQuotient(groups[i].pourcentage, 0, 1)
               ELSE IsQuotient(groups[i].pourcentage, groups[i].total * 100, sum)
       /\ SumTotals(groups) = sum
       /\ \A i, j \in DOMAIN groups : i < j => groups[i].total >= groups[j].total

\* the breakdown of a cycle with one expense in each of two categories, both
\* of the same amount: two groups of 50 percent
C19_Witness ==
  /\ result.op = "getDepensesParCategorie"
  /\ result.error = "none"
  /\ Len(report.groups) = 2
  /\ \A i \in DOMAIN report.groups :
       /\ report.groups[i].total = 200
       /\ report.groups[i].pourcentage = [num |-> 50, den |-> 1]

\* C20: in the breakdown a group's is_exceeded is true exactly when its
\* category has a budget_max, 0 included, and the group's total is greater
\* than it; it is false when the category has no budget_max.
C20_ExceededIffOverBudget ==
  (result.op = "getDepensesParCategorie" /\ result.error = "none") =>
    \A i \in DOMAIN report.groups :
      LET budget_max == categories[report.groups[i].categorie_id].budget_max
      IN report.groups[i].is_exceeded
           = (Has(budget_max) /\ report.groups[i].total > Val(budget_max))

\* ---- properties of the comparison ----

\* C21: in the comparison of two cycles variation_depenses and variation_reste
\* are each 0 when the prior cycle's value is 0, and (current - prior) / prior
\* x 100 for every other prior value, a negative prior reste included.
C21_VariationsGuardedAtZero ==
  (result.op = "getComparaisonMois" /\ result.error = "none") =>
    LET actuel == report.cycle_actuel
        precedent == report.cycle_precedent
    IN /\ IF precedent.total_depenses = 0
          THEN IsQuotient(report.variation_depenses, 0, 1)
          ELSE IsQuotient(report.variation_depenses,
                          (actuel.total_depenses - precedent.total_depenses) * 100,
                          precedent.total_depenses)
       /\ IF precedent.reste = 0
          THEN IsQuotient(report.variation_reste, 0, 1)
          ELSE IsQuotient(report.variation_reste,
                          (actuel.reste - precedent.reste) * 100, precedent.reste)

\* the sum of the expenses of category cat in cycle c
TotalIn(c, cat) ==
  SumMontant(depenses, {d \in DOMAIN depenses :
                          depenses[d].cycle_id = c /\ depenses[d].categorie_id = cat})

\* the categories with an expense in cycle c
PresentIn(c) == {depenses[d].categorie_id : d \in DepensesOfCycle(depenses, c)}

\* the categories named in a list of the comparison
Listed(list) == {list[i].categorie_id : i \in DOMAIN list}

\* C22: in the comparison a category with expenses in both cycles is listed
\* once as rising, with its variation, when the variation is above 5, once as
\* falling, with the absolute value, when it is below -5, and in neither list
\* when it is within +-5; the lists hold no other category and no category
\* twice, every listed variation is greater than 5, and both lists are ordered
\* by variation descending.  (When a breakdown could not be fetched both lists
\* are empty.)
C22_RisingAndFalling ==
  [][(result'.op = "getComparaisonMois" /\ result'.id \in DOMAIN cycles) =>
      \A cycleIdPrecedent \in DOMAIN cycles,
         fails \in OneOf({"statsActuel", "statsPrecedent"}) :
        getComparaisonMois(result'.id, cycleIdPrecedent, fails) =>
          LET cycleId == result'.id
              hausse == report'.categories_en_hausse
              baisse == report'.categories_en_baisse
              common == PresentIn(cycleId) \cap PresentIn(cycleIdPrecedent)
              Diff(cat) == (TotalIn(cycleId, cat) - TotalIn(cycleIdPrecedent, cat)) * 100
              Prior(cat) == TotalIn(cycleIdPrecedent, cat)
          IN /\ result'.error = "none"
             /\ IF fails # {} THEN hausse = <<>> /\ baisse = <<>>
                ELSE /\ \A cat \in common :
                          /\ (cat \in Listed(hausse)) = (Diff(cat) > 5 * Prior(cat))
                          /\ (cat \in Listed(baisse)) = (Diff(cat) < -5 * Prior(cat))
                     /\ Listed(hausse) \cup Listed(baisse) \subseteq common
                     /\ Listed(hausse) \cap Listed(baisse) = {}
                     /\ Cardinality(Listed(hausse)) = Len(hausse)
                     /\ Cardinality(Listed(baisse)) = Len(baisse)
                     /\ \A i \in DOMAIN hausse :
                          IsQuotient(hausse[i].variation, Diff(hausse[i].categorie_id),
                                     Prior(hausse[i].categorie_id))
                     /\ \A i \in DOMAIN baisse :
                          IsQuotient(baisse[i].variation, -Diff(baisse[i].categorie_id),
                                     Prior(baisse[i].categorie_id))
                     /\ \A list \in {hausse, baisse} :
                          /\ \A i \in DOMAIN list : list[i].variation.num > 5 * list[i].variation.den
                          /\ \A i, j \in DOMAIN list :
                               i < j => ~RatioGreater(list[j].variation, list[i].variation)]_vars

\* a comparison with two rising categories: the one that rose by 110 percent
\* comes before the one that rose by 25 percent, although the latter has the
\* higher total in the current cycle
C22_Witness ==
  /\ result.op = "getComparaisonMois"
  /\ result.error = "none"
  /\ Len(report.categories_en_hausse) = 2
  /\ report.categories_en_hausse[1] = [categorie_id |-> 2, variation |-> [num |-> 110, den |-> 1]]
  /\ report.categories_en_hausse[2] = [categorie_id |-> 1, variation |-> [num |-> 25, den |-> 1]]

\* ---- properties of the evolution ----

\* the number of the month that has this name
MoisOf(nom) == CHOOSE m \in DOMAIN MoisNoms : MoisNoms[m] = nom

\* C23: getEvolutionDepenses(user, N) returns min(N, number of the user's
\* cycles) entries, one for each of the user's most recent cycles by (annee,
\* mois), ordered from the oldest to the newest whatever the order in which
\* the cycles were created or are stored; each entry carries its cycle's
\* total_charges, total_depenses and reste.
C23_EvolutionOldestFirst ==
  [][result'.op = "getEvolutionDepenses" =>
      \A u \in Users, nbMois \in NbMois :
        getEvolutionDepenses(u, nbMois, {}) =>
          LET evolution == report'.evolution
              mine == {c \in DOMAIN cycles : cycles[c].user_id = u}
              CycleOf(i) == {c \in mine : /\ cycles[c].annee = evolution[i].annee
                                          /\ cycles[c].mois = MoisOf(evolution[i].mois)}
              shown == UNION {CycleOf(i) : i \in DOMAIN evolution}
          IN /\ result'.error = "none"
             /\ Len(evolution) = Min(nbMois, Cardinality(mine))
             /\ \A i \in DOMAIN evolution :
                  /\ Cardinality(CycleOf(i)) = 1
                  /\ \A c \in CycleOf(i) :
                       /\ evolution[i].total_charges = cycles[c].total_charges
                       /\ evolution[i].total_depenses = cycles[c].total_depenses
                       /\ evolution[i].reste = cycles[c].reste
             /\ \A i, j \in DOMAIN evolution :
                  i < j => \/ evolution[i].annee < evolution[j].annee
                           \/ /\ evolution[i].annee = evolution[j].annee
                              /\ MoisOf(evolution[i].mois) < MoisOf(evolution[j].mois)
             /\ \A c \in shown, d \in mine \ shown : Newer(cycles[c], cycles[d])]_vars

\* December 2025 before January 2026, of a user whose January cycle was
\* opened first and has the lower id; the other user has a cycle too
C23_Witness ==
  /\ result.op = "getEvolutionDepenses"
  /\ result.error = "none"
  /\ Len(report.evolution) = 2
  /\ report.evolution[1].mois = "Decembre" /\ report.evolution[1].annee = 2025
  /\ report.evolution[2].mois = "Janvier" /\ report.evolution[2].annee = 2026
  /\ report.evolution[1].total_depenses # report.evolution[2].total_depenses
  /\ \E c, d \in DOMAIN cycles :
       /\ c < d
       /\ cycles[c].annee = 2026 /\ cycles[d].annee = 2025
       /\ cycles[c].user_id = cycles[d].user_id

\* ---- properties of a closure or an update racing a recompute ----

\* both callers have returned, one from operation op and one from an expense
\* mutation
BothDone(op) ==
  /\ \A p \in Procs : pc[p] = "done"
  /\ \E p, q \in Procs : p # q /\ loc[p].op = op /\ loc[q].op \in ExpenseOps

\* C24: when closeCycle runs at the same time as an expense mutation and its
\* recompute on the same cycle, then once both have returned the cycle has
\* reste = salaire_reel - total_charges - total_depenses and total_depenses is
\* the sum of the cycle's expenses.
C24_CloseRacingRecompute ==
  BothDone("closeCycle") => \A c \in DOMAIN cycles : TotalsExact(cycles, depenses, c)

\* C25: when an updateCycle that changes salaire_reel runs at the same time as
\* an expense recompute on the same cycle, then once both have returned the
\* stored reste is the stored salaire_reel - total_charges - total_depenses.
C25_UpdateRacingRecompute ==
  BothDone("updateCycle") =>
    \A c \in DOMAIN cycles :
      cycles[c].reste
        = cycles[c].salaire_reel - cycles[c].total_charges - cycles[c].total_depenses

\* ---- properties of the recompute after an expense write ----

\* C26: createDepense, deleteDepense and an updateDepense whose update carries
\* montant run one recompute of the owning cycle once their write of the
\* expense has succeeded: the cycles are then what updateCycleTotalDepenses
\* makes of them; an updateDepense without montant leaves the cycles as they
\* were.
C26_RecomputeAfterWrite ==
  [][result'.op \in ExpenseOps =>
      /\ result'.op = "createDepense" =>
           \A cycleId \in DOMAIN cycles, data \in DepenseForms,
              fails \in OneOf(RecomputeCalls) :
             createDepense(cycles[cycleId].user_id, cycleId, data, fails)
               => cycles' = updateCycleTotalDepenses(cycles, depenses', cycleId, fails)
      /\ (result'.op = "updateDepense" /\ result'.id \in DOMAIN depenses) =>
           \A updates \in DepenseUpdates, fails \in OneOf(RecomputeCalls) :
             updateDepense(result'.id, updates, fails)
               => cycles' = IF Has(updates.montant)
                            THEN updateCycleTotalDepenses(cycles, depenses',
                                   depenses[result'.id].cycle_id, fails)
                            ELSE cycles
      /\ (result'.op = "deleteDepense" /\ result'.id \in DOMAIN depenses) =>
           \A fails \in OneOf({"select"} \cup RecomputeCalls) :
             deleteDepense(result'.id, fails)
               => cycles' = updateCycleTotalDepenses(cycles, depenses',
                              depenses[result'.id].cycle_id, fails)]_vars

\* ---- properties of a failed expense write ----

\* C27: when the insert of createDepense, the update of updateDepense or the
\* delete of deleteDepense fails (the store call fails, or no row matches),
\* the operation answers the error and no data, starts no recompute, and
\* leaves the expenses and every cycle as they were.
C27_FailedWriteChangesNothing ==
  [][result'.op \in ExpenseOps =>
      LET Refused == /\ result'.error # "none" /\ ~result'.data
                     /\ depenses' = depenses /\ cycles' = cycles
      IN /\ result'.op = "createDepense" =>
              \A cycleId \in CycleIds, data \in DepenseForms, u \in Users,
                 fails \in OneOf({"insert"}) :
                (/\ fails # {} \/ cycleId \notin DOMAIN cycles
                 /\ createDepense(u, cycleId, data, fails)) => Refused
         /\ result'.op = "updateDepense" =>
              \A updates \in DepenseUpdates, fails \in OneOf({"update"}) :
                (/\ fails # {} \/ result'.id \notin DOMAIN depenses
                 /\ updateDepense(result'.id, updates, fails)) => Refused
         /\ result'.op = "deleteDepense" =>
              \A fails \in OneOf({"delete"}) :
                (/\ fails # {} \/ result'.id \notin DOMAIN depenses
                 /\ deleteDepense(result'.id, fails)) => Refused]_vars

\* the delete of a stored expense failed while the totals of its cycle were
\* out of date: they stay out of date
C27_Witness ==
  /\ result.op = "deleteDepense"
  /\ result.error = "store"
  /\ result.id \in DOMAIN depenses
  /\ ~TotalsExact(cycles, depenses, depenses[result.id].cycle_id)

\* ---- properties of the dashboard's close-and-roll-over flow ----

ActiveCyclesOf(cyc, u) ==
  {c \in DOMAIN cyc : cyc[c].user_id = u /\ cyc[c].statut = "actif"}

\* C28: in the dashboard's flow createCycle is called only after closeCycle
\* returned without error; when closing fails no cycle is created and the
\* current cycle stays active; when the roll-over's createCycle succeeds the
\* user has exactly one active cycle, the new one; and the user never has two
\* active cycles.
C28_CloseThenRollOver ==
  /\ [](\A u \in Users : Cardinality(ActiveCyclesOf(cycles, u)) <= 1)
  /\ [][result'.op = "createCycle" =>
          (result.op = "closeCycle" /\ result.error = "none")]_vars
  /\ [][(result'.op = "closeCycle" /\ result'.error # "none") =>
          /\ cycles' = cycles
          /\ cycles'[result'.id].statut = "actif"]_vars
  /\ [][(result'.op = "createCycle" /\ result'.error = "none") =>
          /\ cycles[result.id].statut = "cloture"
          /\ ActiveCyclesOf(cycles', cycles'[result'.id].user_id) = {result'.id}
          /\ DOMAIN cycles' = DOMAIN cycles \cup {result'.id}]_vars

\* the roll-over opened the next cycle after the first one was closed with
\* the owner's live charges: the new cycle is the user's only active one
C28_Witness ==
  /\ result.op = "createCycle"
  /\ result.error = "none"
  /\ ActiveCyclesOf(cycles, "u1") = {result.id}
  /\ \E c \in DOMAIN cycles : cycles[c].statut = "cloture" /\ cycles[c].total_charges = 800

\* ---- properties of the three computations of the rates ----

\* C29: for every income, zero and negative included, the summary's
\* pourcentage_utilise and taux_epargne are what calculerPourcentageUtilise
\* (income, charges, expenses) and calculerTauxEpargne(reste, income) of the
\* calculation library return, and the percentage used that the dashboard
\* shows for the same cycle is the same value.
C29_RatesAgreeWithLibrary ==
  (result.op = "getStatsMensuel" /\ result.error = "none") =>
    /\ report.pourcentage_utilise
         = calculerPourcentageUtilise(report.salaire, report.total_charges,
                                      report.total_depenses)
    /\ report.taux_epargne = calculerTauxEpargne(report.reste, report.salaire)
    /\ \A u \in Users :
         DashboardCycle(u) = {result.id} =>
           PercentageUsed({cycles[result.id]}, ActiveChargesTotal(charges, u))
             = report.pourcentage_utilise

\* ---- properties of the dashboard fetch ----

Running(p) == pc[p] \in {"fetchCycle", "fetchAll"}

\* C30: with a user present, every run of fetchDashboardData ends, and ends
\* with loading = false on each of its paths (the active-cycle fetch answers
\* an error, there is no active cycle, every fetch succeeds, a fetch throws);
\* error is set only on the thrown path; cycle is set only to a cycle that an
\* active-cycle fetch returned; once no run is under way loading is false.
C30_FetchEndsNotLoading ==
  /\ \A p \in Procs : Running(p) ~> (pc[p] = "done")
  /\ [][\A p \in Procs :
          (Running(p) /\ pc'[p] = "done") =>
            /\ ~dashboard'.loading
            /\ dashboard'.error = (loc'[p].op = "thrown")
            /\ loc'[p].op \in {"cycleError", "noCycle"} => dashboard'.cycle = {}
            /\ loc'[p].op = "fetched" => dashboard'.cycle = {loc'[p].cycle_id}
            /\ loc'[p].op = "thrown" => dashboard'.cycle = dashboard.cycle]_vars
  /\ [](dashboard.cycle # {} =>
          \E p \in Procs : loc[p].op = "fetched" /\ dashboard.cycle = {loc[p].cycle_id})
  /\ []((\E p \in Procs : pc[p] = "done") /\ (\A p \in Procs : ~Running(p))
          => ~dashboard.loading)

\* a run ended on the thrown path after an earlier run had shown the cycle:
\* not loading, the error set, the cycle still shown
C30_Witness ==
  /\ \E p \in Procs : pc[p] = "done" /\ loc[p].op = "thrown"
  /\ \E p \in Procs : pc[p] = "done" /\ loc[p].op = "fetched"
  /\ ~dashboard.loading
  /\ dashboard.error
  /\ dashboard.cycle # {}
====
